---------------------------- MODULE Spec2Model ----------------------------
(***************************************************************************)
(* vagrantp: lifecycle of one VM (Vagrant) or one container (Podman) and   *)
(* its Ansible provisioning.  One behaviour follows one project directory  *)
(* holding one instance; every step is one call of a manager method, of    *)
(* the provisioner, or one CLI command, run to completion.                 *)
(***************************************************************************)
EXTENDS Integers, Sequences, FiniteSets, TLC

VARIABLES
    infra_type,            \* INFRA_TYPE of the project: "vm" or "container"
    backend,               \* what the hypervisor / container runtime really holds
    vagrantp_provisioned,  \* ProvisioningManager's marker file exists
    provisioned,           \* AnsibleProvisioner's .provisioned marker exists
    inventory_file,        \* .ansible_inventory exists in the project directory
    vagrantfile,           \* Vagrantfile exists in the project directory
    runs,                  \* successful non-dry-run playbook runs against the instance that exists now
    state_cache,           \* what .vagrantp-state holds for the instance ("none": no file)
    probe,                 \* the last current_state() made on an arbitrary output of the backend tool
    record,                \* the .provisioned files of several project directories, and the last call on them
    parsed,                \* the last call of the configuration parser: its input and its result
    last                   \* the last call: what it was given, what it invoked, how it ended

vars == << infra_type, backend, vagrantp_provisioned, provisioned,
           inventory_file, vagrantfile, runs, state_cache, probe, record, parsed, last >>

-----------------------------------------------------------------------------
(* Bounds of the model *)

\* ghost counter of playbook runs saturates here
MaxRuns == 2

\* exit statuses of the playbook run are 0..MaxExit
MaxExit == 2

-----------------------------------------------------------------------------
(* InfrastructureState and the backend *)

NOT_CREATED == "not_created"
RUNNING == "running"
STOPPED == "stopped"

InfrastructureState == {NOT_CREATED, "creating", RUNNING, STOPPED, "removing"}

\* what the backend can really hold: no instance, an instance created but
\* never started, a halted instance, a running one
BackendStates == {"absent", "created", "halted", "running"}

InfraTypes == {"vm", "container"}

\* the infrastructure identifier of the project, and another container's name
infra_id == "web"
other_id == "db"

-----------------------------------------------------------------------------
(* Text helpers: a text is a sequence of one-character strings *)

LowerChar(c) ==
    CASE c = "U" -> "u"
      [] c = "E" -> "e"
      [] c = "C" -> "c"
      [] c = "P" -> "p"
      [] c = "S" -> "s"
      [] c = "A" -> "a"
      [] c = "T" -> "t"
      [] c = "O" -> "o"
      [] c = "Y" -> "y"
      [] c = "N" -> "n"
      [] OTHER -> c

Lower(s) == [i \in 1..Len(s) |-> LowerChar(s[i])]

StartsWith(s, p) == Len(s) >= Len(p) /\ SubSeq(s, 1, Len(p)) = p

Contains(s, p) == \E i \in 1..(Len(s) - Len(p) + 1) : SubSeq(s, i, i + Len(p) - 1) = p

\* str.strip().lower() of one comma-separated field of vagrant's output
StripLower(f) ==
    CASE f = "Running" -> "running"
      [] f = " running" -> "running"
      [] f = "PowerOff" -> "poweroff"
      [] f = "Not_Created" -> "not_created"
      [] OTHER -> f

-----------------------------------------------------------------------------
(* What the backend prints for its status queries *)

\* vagrant status --machine-readable: records timestamp,target,type,data
VagrantStateWord(b) ==
    CASE b = "absent" -> "not_created"
      [] b = "created" -> "poweroff"
      [] b = "halted" -> "poweroff"
      [] b = "running" -> "running"

VagrantStatusOutput(b) ==
    << << "1700000000", "default", "metadata", "provider", "virtualbox" >>,
       << "1700000000", "default", "provider-name", "virtualbox" >>,
       << "1700000000", "default", "state", VagrantStateWord(b) >>,
       << "1700000000", "default", "state-human-short", VagrantStateWord(b) >>,
       << "1700000000", "", "ui", "info", "Current machine states:" >> >>

\* podman ps -a --format "{{.Names}}\t{{.Status}}": lines name TAB status
PodmanStatusText(b) ==
    CASE b = "created" -> << "C", "r", "e", "a", "t", "e", "d" >>
      [] b = "halted" -> << "E", "x", "i", "t", "e", "d", " ", "(", "0", ")" >>
      [] b = "running" -> << "U", "p", " ", "2", "s" >>

PodmanPsOutput(b) ==
    << << other_id, PodmanStatusText("running") >> >>
    \o (IF b = "absent" THEN << >> ELSE << << infra_id, PodmanStatusText(b) >> >>)

\* podman ps -a --format "{{.Names}}"
PodmanNamesOutput(b) ==
    << other_id >> \o (IF b = "absent" THEN << >> ELSE << infra_id >>)

-----------------------------------------------------------------------------
(* StateProbe: VMManager._get_state and ContainerManager._get_state *)

\* line.startswith(",,") on a line given as its comma-separated fields
StartsWithCommaComma(line) == Len(line) >= 3 /\ line[1] = "" /\ line[2] = ""

\* the loop over the lines of vagrant's output, from line i on
RECURSIVE VagrantScan(_, _)
VagrantScan(lines, i) ==
    IF i > Len(lines) THEN NOT_CREATED
    ELSE LET line == lines[i] IN
         IF StartsWithCommaComma(line)
         THEN LET parts == line IN
              IF Len(parts) >= 3
              THEN LET vagrant_state == StripLower(parts[2]) IN
                   IF vagrant_state = "running" THEN RUNNING
                   ELSE IF vagrant_state \in {"poweroff", "stopped", "aborted"} THEN STOPPED
                   ELSE IF vagrant_state \in {"not created", "not_created"} THEN NOT_CREATED
                   ELSE VagrantScan(lines, i + 1)
              ELSE VagrantScan(lines, i + 1)
         ELSE VagrantScan(lines, i + 1)

\* how a status query can end: exit 0, a non-zero exit, an exception while
\* running it (the tool is not installed)
QueryOutcomes == {"ok", "nonzero", "exception"}

\* _get_state for a query that ended how and printed lines: the except
\* clause swallows every exception
VMManager_get_state_of(how, lines) ==
    IF how # "ok" THEN NOT_CREATED ELSE VagrantScan(lines, 1)

\* query_ok: vagrant status exited 0
VMManager_get_state(b, query_ok) ==
    VMManager_get_state_of(IF query_ok THEN "ok" ELSE "nonzero", VagrantStatusOutput(b))

StoppedMarkers ==
    { << "s", "t", "o", "p", "p", "e", "d" >>,
      << "e", "x", "i", "t", "e", "d" >>,
      << "c", "r", "e", "a", "t", "e", "d" >> }

\* the loop over the lines of podman's listing, from line i on
RECURSIVE PodmanScan(_, _)
PodmanScan(lines, i) ==
    IF i > Len(lines) THEN NOT_CREATED
    ELSE LET parts == lines[i] IN
         IF Len(parts) # 2 THEN PodmanScan(lines, i + 1)
         ELSE LET name == parts[1]
                  status == parts[2]
              IN  IF name = infra_id
                  THEN LET status_lower == Lower(status) IN
                       IF StartsWith(status_lower, << "u", "p" >>) THEN RUNNING
                       ELSE IF \E s \in StoppedMarkers : Contains(status_lower, s) THEN STOPPED
                       ELSE PodmanScan(lines, i + 1)
                  ELSE PodmanScan(lines, i + 1)

\* _get_state that reads the listing without looking at the exit status
ContainerManager_get_state_of_ignores_exit(how, lines) ==
    IF how = "exception" THEN NOT_CREATED ELSE PodmanScan(lines, 1)

\* _get_state that takes the status of every entry for the instance's own
ContainerManager_get_state_of_any_name(how, lines) ==
    IF how # "ok" THEN NOT_CREATED
    ELSE PodmanScan([i \in 1..Len(lines) |->
                       IF Len(lines[i]) = 2 THEN << infra_id, lines[i][2] >>
                       ELSE lines[i]], 1)

\* _get_state for a query that ended how and printed lines
ContainerManager_get_state_of(how, lines) ==
    IF how # "ok" THEN NOT_CREATED ELSE PodmanScan(lines, 1)

\* _get_state that takes a container that was created and never started for
\* a running one
ContainerManager_get_state_created_is_up(b, query_ok) ==
    IF ~query_ok THEN NOT_CREATED
    ELSE IF b = "created" THEN RUNNING
    ELSE PodmanScan(PodmanPsOutput(b), 1)

\* query_ok: podman ps exited 0
ContainerManager_get_state(b, query_ok) ==
    ContainerManager_get_state_of(IF query_ok THEN "ok" ELSE "nonzero", PodmanPsOutput(b))

\* query_ok: podman ps exited 0; a failed query has printed nothing
ContainerManager_check_container_exists(b, query_ok) ==
    LET names == IF query_ok THEN PodmanNamesOutput(b) ELSE << "" >>
    IN  \E i \in 1..Len(names) : names[i] = infra_id

\* what .vagrantp-state can hold for the instance; "none": no file, or no
\* line for the instance; "garbage": a value that names no state
CacheContents == {"none", NOT_CREATED, RUNNING, STOPPED, "garbage"}

\* StateManager.get_state(infra_id)
StateManager_get_state(c) ==
    IF c \in {NOT_CREATED, RUNNING, STOPPED} THEN c ELSE NOT_CREATED

\* current_state() of the manager the project's INFRA_TYPE selects
GetState(kind, b, query_ok) ==
    IF kind = "vm" THEN VMManager_get_state(b, query_ok)
    ELSE ContainerManager_get_state(b, query_ok)

-----------------------------------------------------------------------------
(* The backend's commands: when they can exit 0 and what they leave behind *)

\* vagrant up both creates a VM and starts a halted one
CreateCmds == {"vagrant up", "podman run"}
StartCmds == {"vagrant up", "podman start"}
GracefulHaltCmds == {"vagrant halt", "podman stop"}
ForcedHaltCmds == {"vagrant halt --force", "podman kill"}
HaltCmds == GracefulHaltCmds \cup ForcedHaltCmds
DestroyCmds == {"vagrant destroy --force", "podman rm"}
SessionCmds == {"vagrant ssh", "podman exec -it"}
AddressCmds == {"vagrant ssh-config", "podman inspect"}
MutatingCmds == CreateCmds \cup StartCmds \cup HaltCmds \cup DestroyCmds

\* the command can exit 0 when the backend holds b
Feasible(cmd, b) ==
    CASE cmd = "podman run" -> b = "absent"
      [] cmd = "podman start" -> b # "absent"
      [] cmd = "podman stop" -> b # "absent"
      [] cmd = "podman kill" -> b = "running"
      [] cmd = "podman rm" -> b \in {"created", "halted"}
      [] cmd = "vagrant halt" -> b # "absent"
      [] cmd = "vagrant halt --force" -> b # "absent"
      [] cmd \in SessionCmds -> b = "running"
      [] OTHER -> TRUE

\* the exit of cmd: 0 (TRUE) only if the environment lets it and it can
Exit0(cmd, ok, b) == ok /\ Feasible(cmd, b)

\* what the backend holds after cmd; partial: a failed creation left an
\* instance behind that was created but never started
BackendAfter(cmd, ok, partial, b) ==
    IF Exit0(cmd, ok, b)
    THEN CASE cmd \in CreateCmds \cup StartCmds -> "running"
           [] cmd \in HaltCmds -> IF b = "running" THEN "halted" ELSE b
           [] cmd \in DestroyCmds -> "absent"
           [] OTHER -> b
    ELSE IF cmd \in CreateCmds /\ b = "absent" /\ partial THEN "created" ELSE b

\* the project directory and the backend, as one value handlers transform
World ==
    [ backend |-> backend,
      vagrantp_provisioned |-> vagrantp_provisioned,
      provisioned |-> provisioned,
      inventory_file |-> inventory_file,
      vagrantfile |-> vagrantfile,
      runs |-> runs,
      state_cache |-> state_cache ]

\* run cmd against the backend; an instance that is destroyed takes its
\* count of playbook runs with it
Invoke(w, cmd, ok, partial) ==
    LET b2 == BackendAfter(cmd, ok, partial, w.backend)
    IN  [w EXCEPT !.backend = b2,
                  !.runs = IF b2 = "absent" THEN 0 ELSE @]

\* one command a handler ran and its exit status
RanStatus(cmd, rc) == << [cmd |-> cmd, rc |-> rc] >>

\* one command a handler ran, when all that is known is whether it exited 0
Ran(cmd, exit0) == RanStatus(cmd, IF exit0 THEN 0 ELSE 1)

\* how a handler ends: the world it leaves, the commands it ran, the
\* exception it raised ("ok": none), the ErrorCode and the exit status the
\* exception carries (0: none), and what it told the user when it returned
\* without doing its work
ReturnNote(w, calls, note) ==
    [ w |-> w, calls |-> calls, outcome |-> "ok", code |-> "SUCCESS", status |-> 0,
      note |-> note ]

Return(w, calls) == ReturnNote(w, calls, "")

Raise(w, calls, exc, code, status) ==
    [ w |-> w, calls |-> calls, outcome |-> exc, code |-> code, status |-> status,
      note |-> "" ]

\* how a version check of the backend tool is recorded: 127, the status a
\* shell gives for a command it cannot find, stands for "no such executable"
ToolStatus(tool) == IF tool = "ok" THEN 0 ELSE IF tool = "missing" THEN 127 ELSE 1

VagrantpErrors ==
    { "VagrantpError", "ConfigNotFoundError", "ConfigInvalidError",
      "InfrastructureExistsError", "ProviderNotAvailableError",
      "ProvisioningFailedError" }

-----------------------------------------------------------------------------
(* LifecycleOrchestrator: VMManager *)

\* tool: how "vagrant --version" ended: "ok", "nonzero", or "missing" (no
\* such executable).  The exit of "vagrant up" is not looked at (check=False).
VMManager_create(w, tool, up_ok, partial) ==
    LET w1 == [w EXCEPT !.vagrantfile = TRUE]
        c1 == RanStatus("vagrant --version", ToolStatus(tool))
        c2 == c1 \o Ran("vagrant up", Exit0("vagrant up", up_ok, w.backend))
    IN  IF tool = "nonzero"
        THEN Raise(w1, c1, "ProviderNotAvailableError", "PROVIDER_NOT_AVAILABLE", 0)
        ELSE IF tool = "missing"
        THEN Raise(w1, c1, "FileNotFoundError", "NONE", 0)
        ELSE Return(Invoke(w1, "vagrant up", up_ok, partial), c2)

\* has_host: the output of vagrant ssh-config has a HostName line
VMManager_get_ssh_host(w, query_ok, config_ok, has_host) ==
    LET state == VMManager_get_state(w.backend, query_ok)
        c1 == Ran("vagrant status", query_ok)
        exit0 == Exit0("vagrant ssh-config", config_ok, w.backend)
        c2 == c1 \o Ran("vagrant ssh-config", exit0)
    IN  IF state # RUNNING
        THEN Raise(w, c1, "VagrantpError", "GENERAL_ERROR", 0)
        ELSE IF exit0 /\ has_host THEN Return(w, c2)
        ELSE Raise(w, c2, "VagrantpError", "GENERAL_ERROR", 0)

\* The exit of "vagrant up" is not looked at (check=False).
VMManager_start(w, query_ok, up_ok) ==
    LET state == VMManager_get_state(w.backend, query_ok)
        c1 == Ran("vagrant status", query_ok)
        c2 == c1 \o Ran("vagrant up", Exit0("vagrant up", up_ok, w.backend))
    IN  IF state = RUNNING THEN Return(w, c1)
        ELSE IF state = NOT_CREATED THEN Return(w, c1)
        ELSE Return(Invoke(w, "vagrant up", up_ok, FALSE), c2)

VMManager_connect(w, query_ok, ssh_ok) ==
    LET state == VMManager_get_state(w.backend, query_ok)
        c1 == Ran("vagrant status", query_ok)
        exit0 == Exit0("vagrant ssh", ssh_ok, w.backend)
        c2 == c1 \o Ran("vagrant ssh", exit0)
    IN  IF state # RUNNING
        THEN Raise(w, c1, "VagrantpError", "GENERAL_ERROR", 0)
        ELSE IF exit0 THEN Return(w, c2)
        ELSE Raise(w, c2, "VagrantpError", "GENERAL_ERROR", 0)

VMManager_stop(w, force, query_ok, halt_ok) ==
    LET state == VMManager_get_state(w.backend, query_ok)
        c1 == Ran("vagrant status", query_ok)
        cmd == IF force THEN "vagrant halt --force" ELSE "vagrant halt"
        exit0 == Exit0(cmd, halt_ok, w.backend)
        c2 == c1 \o Ran(cmd, exit0)
    IN  IF state = NOT_CREATED THEN Return(w, c1)
        ELSE IF state # RUNNING THEN Return(w, c1)
        ELSE IF exit0 THEN Return(Invoke(w, cmd, halt_ok, FALSE), c2)
        ELSE Raise(w, c2, "VagrantpError", "GENERAL_ERROR", 0)

\* query2_ok: the status query of the stop() that remove() calls
VMManager_remove(w, force, query_ok, query2_ok, halt_ok, destroy_ok) ==
    LET state == VMManager_get_state(w.backend, query_ok)
        c1 == Ran("vagrant status", query_ok)
        halted == IF state = RUNNING
                  THEN VMManager_stop(w, force, query2_ok, halt_ok)
                  ELSE Return(w, << >>)
        cmd == "vagrant destroy --force"
        exit0 == Exit0(cmd, destroy_ok, halted.w.backend)
        c2 == c1 \o halted.calls
        c3 == c2 \o Ran(cmd, exit0)
    IN  IF state = NOT_CREATED THEN Return(w, c1)
        ELSE IF halted.outcome # "ok"
        THEN [halted EXCEPT !.calls = c2]
        ELSE IF exit0 THEN Return(Invoke(halted.w, cmd, destroy_ok, FALSE), c3)
        ELSE Raise(halted.w, c3, "VagrantpError", "GENERAL_ERROR", 0)

-----------------------------------------------------------------------------
(* LifecycleOrchestrator: ContainerManager *)

\* tool: how "podman --version" ended; exists_ok: the exit of the podman ps
\* of _check_container_exists
ContainerManager_create(w, tool, exists_ok, run_ok, partial) ==
    LET exit0 == Exit0("podman run", run_ok, w.backend)
        c1 == RanStatus("podman --version", ToolStatus(tool))
        c2 == c1 \o Ran("podman ps names", exists_ok)
        c3 == c2 \o Ran("podman run", exit0)
    IN  IF tool = "nonzero"
        THEN Raise(w, c1, "ProviderNotAvailableError", "PROVIDER_NOT_AVAILABLE", 0)
        ELSE IF tool = "missing"
        THEN Raise(w, c1, "FileNotFoundError", "NONE", 0)
        ELSE IF ContainerManager_check_container_exists(w.backend, exists_ok)
        THEN Raise(w, c2, "VagrantpError", "INFRA_EXISTS", 0)
        ELSE IF exit0 THEN Return(Invoke(w, "podman run", run_ok, partial), c3)
        ELSE Raise(Invoke(w, "podman run", run_ok, partial), c3,
                   "VagrantpError", "GENERAL_ERROR", 0)

\* start() without its return for a container that does not exist
ContainerManager_start_no_guard(w, query_ok, start_ok) ==
    LET state == ContainerManager_get_state(w.backend, query_ok)
        exit0 == Exit0("podman start", start_ok, w.backend)
        c1 == Ran("podman ps", query_ok)
        c2 == c1 \o Ran("podman start", exit0)
    IN  IF state = RUNNING THEN Return(w, c1)
        ELSE IF exit0 THEN Return(Invoke(w, "podman start", start_ok, FALSE), c2)
        ELSE Raise(w, c2, "VagrantpError", "GENERAL_ERROR", 0)

\* start() without its return for a container that is already running
ContainerManager_start_no_running_guard(w, query_ok, start_ok) ==
    LET state == ContainerManager_get_state(w.backend, query_ok)
        exit0 == Exit0("podman start", start_ok, w.backend)
        c1 == Ran("podman ps", query_ok)
        c2 == c1 \o Ran("podman start", exit0)
    IN  IF state = NOT_CREATED THEN Return(w, c1)
        ELSE IF exit0 THEN Return(Invoke(w, "podman start", start_ok, FALSE), c2)
        ELSE Raise(w, c2, "VagrantpError", "GENERAL_ERROR", 0)

ContainerManager_start(w, query_ok, start_ok) ==
    LET state == ContainerManager_get_state(w.backend, query_ok)
        exit0 == Exit0("podman start", start_ok, w.backend)
        c1 == Ran("podman ps", query_ok)
        c2 == c1 \o Ran("podman start", exit0)
    IN  IF state = RUNNING THEN Return(w, c1)
        ELSE IF state = NOT_CREATED THEN Return(w, c1)
        ELSE IF exit0 THEN Return(Invoke(w, "podman start", start_ok, FALSE), c2)
        ELSE Raise(w, c2, "VagrantpError", "GENERAL_ERROR", 0)

\* connect() without its check that the container is running
ContainerManager_connect_no_guard(w, query_ok, exec_ok) ==
    LET exit0 == Exit0("podman exec -it", exec_ok, w.backend)
        c1 == Ran("podman ps", query_ok)
        c2 == c1 \o Ran("podman exec -it", exit0)
    IN  IF exit0 THEN Return(w, c2)
        ELSE Raise(w, c2, "VagrantpError", "GENERAL_ERROR", 0)

ContainerManager_connect(w, query_ok, exec_ok) ==
    LET state == ContainerManager_get_state(w.backend, query_ok)
        exit0 == Exit0("podman exec -it", exec_ok, w.backend)
        c1 == Ran("podman ps", query_ok)
        c2 == c1 \o Ran("podman exec -it", exit0)
    IN  IF state # RUNNING
        THEN Raise(w, c1, "VagrantpError", "GENERAL_ERROR", 0)
        ELSE IF exit0 THEN Return(w, c2)
        ELSE Raise(w, c2, "VagrantpError", "GENERAL_ERROR", 0)

\* has_ip: podman inspect printed an address
ContainerManager_get_ssh_host(w, query_ok, inspect_ok, has_ip) ==
    LET state == ContainerManager_get_state(w.backend, query_ok)
        c1 == Ran("podman ps", query_ok)
        exit0 == Exit0("podman inspect", inspect_ok, w.backend)
        c2 == c1 \o Ran("podman inspect", exit0)
    IN  IF state # RUNNING
        THEN Raise(w, c1, "VagrantpError", "GENERAL_ERROR", 0)
        ELSE IF exit0 /\ has_ip THEN Return(w, c2)
        ELSE Raise(w, c2, "VagrantpError", "GENERAL_ERROR", 0)

\* stop() without its return for a container that is not running
ContainerManager_stop_no_guard(w, force, query_ok, halt_ok) ==
    LET state == ContainerManager_get_state(w.backend, query_ok)
        cmd == IF force THEN "podman kill" ELSE "podman stop"
        exit0 == Exit0(cmd, halt_ok, w.backend)
        c1 == Ran("podman ps", query_ok)
        c2 == c1 \o Ran(cmd, exit0)
    IN  IF state = NOT_CREATED THEN Return(w, c1)
        ELSE IF exit0 THEN Return(Invoke(w, cmd, halt_ok, FALSE), c2)
        ELSE Raise(w, c2, "VagrantpError", "GENERAL_ERROR", 0)

\* stop() that takes the state from .vagrantp-state when the file has one
ContainerManager_stop_trusts_cache(w, force, query_ok, halt_ok) ==
    LET state == IF w.state_cache # "none"
                 THEN StateManager_get_state(w.state_cache)
                 ELSE ContainerManager_get_state(w.backend, query_ok)
        cmd == IF force THEN "podman kill" ELSE "podman stop"
        exit0 == Exit0(cmd, halt_ok, w.backend)
        c1 == Ran("podman ps", query_ok)
        c2 == c1 \o Ran(cmd, exit0)
    IN  IF state = NOT_CREATED THEN Return(w, c1)
        ELSE IF state # RUNNING THEN Return(w, c1)
        ELSE IF exit0 THEN Return(Invoke(w, cmd, halt_ok, FALSE), c2)
        ELSE Raise(w, c2, "VagrantpError", "GENERAL_ERROR", 0)

ContainerManager_stop(w, force, query_ok, halt_ok) ==
    LET state == ContainerManager_get_state(w.backend, query_ok)
        cmd == IF force THEN "podman kill" ELSE "podman stop"
        exit0 == Exit0(cmd, halt_ok, w.backend)
        c1 == Ran("podman ps", query_ok)
        c2 == c1 \o Ran(cmd, exit0)
    IN  IF state = NOT_CREATED THEN Return(w, c1)
        ELSE IF state # RUNNING THEN Return(w, c1)
        ELSE IF exit0 THEN Return(Invoke(w, cmd, halt_ok, FALSE), c2)
        ELSE Raise(w, c2, "VagrantpError", "GENERAL_ERROR", 0)

\* remove() that goes on to the destroy command when its stop() raised
ContainerManager_remove_despite_failed_halt(w, force, query_ok, query2_ok, halt_ok, destroy_ok) ==
    LET state == ContainerManager_get_state(w.backend, query_ok)
        halted == IF state = RUNNING
                  THEN ContainerManager_stop(w, force, query2_ok, halt_ok)
                  ELSE Return(w, << >>)
        cmd == "podman rm"
        exit0 == Exit0(cmd, destroy_ok, halted.w.backend)
        c3 == Ran("podman ps", query_ok) \o halted.calls \o Ran(cmd, exit0)
    IN  IF state = NOT_CREATED THEN Return(w, Ran("podman ps", query_ok))
        ELSE IF exit0 THEN Return(Invoke(halted.w, cmd, destroy_ok, FALSE), c3)
        ELSE Raise(halted.w, c3, "VagrantpError", "GENERAL_ERROR", 0)

\* query2_ok: the status query of the stop() that remove() calls
ContainerManager_remove(w, force, query_ok, query2_ok, halt_ok, destroy_ok) ==
    LET state == ContainerManager_get_state(w.backend, query_ok)
        halted == IF state = RUNNING
                  THEN ContainerManager_stop(w, force, query2_ok, halt_ok)
                  ELSE Return(w, << >>)
        cmd == "podman rm"
        exit0 == Exit0(cmd, destroy_ok, halted.w.backend)
        c1 == Ran("podman ps", query_ok)
        c2 == c1 \o halted.calls
        c3 == c2 \o Ran(cmd, exit0)
    IN  IF state = NOT_CREATED THEN Return(w, c1)
        ELSE IF halted.outcome # "ok"
        THEN [halted EXCEPT !.calls = c2]
        ELSE IF exit0 THEN Return(Invoke(halted.w, cmd, destroy_ok, FALSE), c3)
        ELSE Raise(halted.w, c3, "VagrantpError", "GENERAL_ERROR", 0)

-----------------------------------------------------------------------------
(* ProvisioningOrchestrator: AnsibleProvisioner *)

\* the exit of a playbook run (or of a reachability probe) that the
\* environment would let end with rc: only a running instance can be reached
PlaybookExit(rc, b) == IF b # "running" /\ rc = 0 THEN 1 ELSE rc

AnsibleProvisioner_mark_provisioned(w) == [w EXCEPT !.provisioned = TRUE]

AnsibleProvisioner_is_provisioned(w) == w.provisioned

AnsibleProvisioner_clear_provisioning_marker(w) == [w EXCEPT !.provisioned = FALSE]

AnsibleProvisioner_create_inventory_file(w) == [w EXCEPT !.inventory_file = TRUE]

\* a playbook run that exited 0 without --check has provisioned the instance
CountRun(w, dry_run) ==
    IF dry_run THEN w
    ELSE [w EXCEPT !.runs = IF @ < MaxRuns THEN @ + 1 ELSE @]

\* _verify_ssh_connection that only reports a failed ansible ping of a VM
AnsibleProvisioner_verify_ssh_connection_vm_best_effort(w, kind, verify_ok) ==
    LET cmd == IF kind = "container" THEN "podman inspect" ELSE "ansible ping"
        exit0 == verify_ok /\ w.backend = "running"
    IN  IF exit0 THEN Return(w, Ran(cmd, TRUE))
        ELSE IF kind = "vm" THEN Return(w, Ran(cmd, FALSE))
        ELSE Raise(w, Ran(cmd, FALSE), "VagrantpError", "PROVISIONING_FAILED", 0)

\* raises VagrantpError(PROVISIONING_FAILED) when the probe fails, for a VM
\* (ansible ping) and for a container (podman inspect) alike
AnsibleProvisioner_verify_ssh_connection(w, kind, verify_ok) ==
    LET cmd == IF kind = "container" THEN "podman inspect" ELSE "ansible ping"
        exit0 == verify_ok /\ w.backend = "running"
    IN  IF exit0 THEN Return(w, Ran(cmd, TRUE))
        ELSE Raise(w, Ran(cmd, FALSE), "VagrantpError", "PROVISIONING_FAILED", 0)

\* execute() that writes the record after a dry run too
AnsibleProvisioner_execute_marks_dry_run(w, kind, dry_run, playbook_exists, vars_ok, install_ok, verify_ok, rc) ==
    LET w1 == AnsibleProvisioner_create_inventory_file(w)
        c1 == IF kind = "container" THEN Ran("podman exec pacman", install_ok) ELSE << >>
        verified == AnsibleProvisioner_verify_ssh_connection(w1, kind, verify_ok)
        c2 == c1 \o verified.calls
        returncode == PlaybookExit(rc, w1.backend)
        c3 == c2 \o RanStatus(IF dry_run THEN "ansible-playbook --check"
                                          ELSE "ansible-playbook", returncode)
        w2 == AnsibleProvisioner_mark_provisioned(w1)
        w3 == [CountRun(w2, dry_run) EXCEPT !.inventory_file = FALSE]
    IN  IF ~playbook_exists
        THEN Raise(w, << >>, "ProvisioningFailedError", "PROVISIONING_FAILED", 0)
        ELSE IF ~vars_ok
        THEN Raise(w, << >>, "ProvisioningFailedError", "PROVISIONING_FAILED", 0)
        ELSE IF verified.outcome # "ok"
        THEN Raise(w1, c2, verified.outcome, verified.code, verified.status)
        ELSE IF returncode # 0
        THEN Raise(w1, c3, "ProvisioningFailedError", "PROVISIONING_FAILED", returncode)
        ELSE Return(w3, c3)

\* playbook_exists, vars_ok: the pre-flight checks of the two paths;
\* install_ok: the exit of the package installation in the container;
\* rc: the exit status the playbook run ends with
AnsibleProvisioner_execute(w, kind, dry_run, playbook_exists, vars_ok, install_ok, verify_ok, rc) ==
    LET w1 == AnsibleProvisioner_create_inventory_file(w)
        c1 == IF kind = "container" THEN Ran("podman exec pacman", install_ok) ELSE << >>
        verified == AnsibleProvisioner_verify_ssh_connection(w1, kind, verify_ok)
        c2 == c1 \o verified.calls
        returncode == PlaybookExit(rc, w1.backend)
        c3 == c2 \o RanStatus(IF dry_run THEN "ansible-playbook --check"
                                          ELSE "ansible-playbook", returncode)
        w2 == IF ~dry_run THEN AnsibleProvisioner_mark_provisioned(w1) ELSE w1
        w3 == [CountRun(w2, dry_run) EXCEPT !.inventory_file = FALSE]
    IN  IF ~playbook_exists
        THEN Raise(w, << >>, "ProvisioningFailedError", "PROVISIONING_FAILED", 0)
        ELSE IF ~vars_ok
        THEN Raise(w, << >>, "ProvisioningFailedError", "PROVISIONING_FAILED", 0)
        ELSE IF verified.outcome # "ok"
        THEN Raise(w1, c2, verified.outcome, verified.code, verified.status)
        ELSE IF returncode # 0
        THEN Raise(w1, c3, "ProvisioningFailedError", "PROVISIONING_FAILED", returncode)
        ELSE Return(w3, c3)

-----------------------------------------------------------------------------
(* ProvisioningOrchestrator: ProvisioningManager, the class the CLI uses *)

ProvisioningManager_check_provisioning_status(w) == w.vagrantp_provisioned

ProvisioningManager_mark_provisioned(w) == [w EXCEPT !.vagrantp_provisioned = TRUE]

ProvisioningManager_clear_provisioned_status(w) == [w EXCEPT !.vagrantp_provisioned = FALSE]

\* the reachability probe of a VM: its failure is not fatal
ProvisioningManager_verify_ssh_connection(w, verify_ok) ==
    Return(w, Ran("ansible ping", verify_ok /\ w.backend = "running"))

\* skip when already provisioned; else run the playbook, write the record on
\* exit 0 unless dry_run, raise ProvisioningFailed with the status otherwise
ProvisioningManager_execute(w, dry_run, rc) ==
    LET returncode == PlaybookExit(rc, w.backend)
        c1 == RanStatus(IF dry_run THEN "ansible-playbook --check"
                                    ELSE "ansible-playbook", returncode)
        w1 == IF ~dry_run THEN ProvisioningManager_mark_provisioned(w) ELSE w
    IN  IF ProvisioningManager_check_provisioning_status(w) THEN Return(w, << >>)
        ELSE IF returncode # 0
        THEN Raise(w, c1, "ProvisioningFailedError", "PROVISIONING_FAILED", returncode)
        ELSE Return(CountRun(w1, dry_run), c1)

-----------------------------------------------------------------------------
(* Handlers that call handlers: the set of ways a handler can end, over all
   the ways the commands it runs can end *)

\* after a step that ended r: the ways S the next step can end, when r
\* returned normally; r itself when it raised
Continue(r, S) ==
    IF r.outcome = "ok"
    THEN { [r2 EXCEPT !.calls = r.calls \o @] : r2 \in S }
    ELSE { r }

ToolOutcomes == {"ok", "nonzero", "missing"}

\* manager.create(config) .. manager.remove(force) of the manager that
\* INFRA_TYPE selects
Manager_create(w, kind) ==
    IF kind = "vm"
    THEN { VMManager_create(w, tool, up_ok, partial) :
             tool \in ToolOutcomes, up_ok \in BOOLEAN, partial \in BOOLEAN }
    ELSE UNION { { ContainerManager_create(w, tool, exists_ok, run_ok, partial) :
                     tool \in ToolOutcomes, exists_ok \in BOOLEAN } :
                   run_ok \in BOOLEAN, partial \in BOOLEAN }

Manager_start(w, kind) ==
    IF kind = "vm"
    THEN { VMManager_start(w, query_ok, up_ok) : query_ok \in BOOLEAN, up_ok \in BOOLEAN }
    ELSE { ContainerManager_start(w, query_ok, start_ok) :
             query_ok \in BOOLEAN, start_ok \in BOOLEAN }

Manager_connect(w, kind) ==
    IF kind = "vm"
    THEN { VMManager_connect(w, query_ok, ssh_ok) : query_ok \in BOOLEAN, ssh_ok \in BOOLEAN }
    ELSE { ContainerManager_connect(w, query_ok, exec_ok) :
             query_ok \in BOOLEAN, exec_ok \in BOOLEAN }

\* manager._get_ssh_host(): resolve_address()
Manager_resolve_address(w, kind) ==
    IF kind = "vm"
    THEN { VMManager_get_ssh_host(w, query_ok, config_ok, has_host) :
             query_ok \in BOOLEAN, config_ok \in BOOLEAN, has_host \in BOOLEAN }
    ELSE { ContainerManager_get_ssh_host(w, query_ok, inspect_ok, has_ip) :
             query_ok \in BOOLEAN, inspect_ok \in BOOLEAN, has_ip \in BOOLEAN }

Manager_stop(w, kind, force) ==
    IF kind = "vm"
    THEN { VMManager_stop(w, force, query_ok, halt_ok) :
             query_ok \in BOOLEAN, halt_ok \in BOOLEAN }
    ELSE { ContainerManager_stop(w, force, query_ok, halt_ok) :
             query_ok \in BOOLEAN, halt_ok \in BOOLEAN }

Manager_remove(w, kind, force) ==
    IF kind = "vm"
    THEN UNION { { VMManager_remove(w, force, query_ok, query2_ok, halt_ok, destroy_ok) :
                     query_ok \in BOOLEAN, query2_ok \in BOOLEAN } :
                   halt_ok \in BOOLEAN, destroy_ok \in BOOLEAN }
    ELSE UNION { { ContainerManager_remove(w, force, query_ok, query2_ok, halt_ok, destroy_ok) :
                     query_ok \in BOOLEAN, query2_ok \in BOOLEAN } :
                   halt_ok \in BOOLEAN, destroy_ok \in BOOLEAN }

\* the status query of the selected manager, as a command that was run
ProbeCall(kind, query_ok) ==
    Ran(IF kind = "vm" THEN "vagrant status" ELSE "podman ps", query_ok)

-----------------------------------------------------------------------------
(* cli/main.py: provisioning *)

\* _run_container_playbook that reports a failed run without its exit status
run_container_playbook_drops_status(w, playbook_exists, copy_ok, rc) ==
    LET copied == copy_ok /\ w.backend = "running"
        returncode == PlaybookExit(rc, w.backend)
        c1 == Ran("runtime cp playbook", copied)
        c2 == c1 \o RanStatus("ansible-playbook", returncode)
    IN  IF ~playbook_exists THEN Raise(w, << >>, "FileNotFoundError", "NONE", 0)
        ELSE IF ~copied THEN Raise(w, c1, "CalledProcessError", "NONE", 0)
        ELSE IF returncode # 0
        THEN Raise(w, c2, "ProvisioningFailedError", "PROVISIONING_FAILED", 1)
        ELSE Return(CountRun(w, FALSE), c2)

\* playbook_exists: the playbook is in the project directory; copy_ok: the
\* mkdir and cp into the container exited 0; rc: the exit status of the run
run_container_playbook(w, playbook_exists, copy_ok, rc) ==
    LET copied == copy_ok /\ w.backend = "running"
        returncode == PlaybookExit(rc, w.backend)
        c1 == Ran("runtime cp playbook", copied)
        c2 == c1 \o RanStatus("ansible-playbook", returncode)
    IN  IF ~playbook_exists THEN Raise(w, << >>, "FileNotFoundError", "NONE", 0)
        ELSE IF ~copied THEN Raise(w, c1, "CalledProcessError", "NONE", 0)
        ELSE IF returncode # 0
        THEN Raise(w, c2, "ProvisioningFailedError", "PROVISIONING_FAILED", returncode)
        ELSE Return(CountRun(w, FALSE), c2)

\* the bootstrap that goes on to the playbook run when Ansible is absent and
\* auto-install is off
BootstrapOutcomes_no_skip(auto_install) ==
    LET which == "runtime exec which ansible"
        py_found == Ran("runtime exec which python3", TRUE)
        py_installed == Ran("runtime exec which python3", FALSE)
                        \o Ran("runtime exec install python", TRUE)
        py_failed == Ran("runtime exec which python3", FALSE)
                     \o Ran("runtime exec install python", FALSE)
        ans_found == Ran(which, TRUE)
        ans_installed == Ran(which, FALSE) \o Ran("runtime exec install ansible", TRUE)
        ans_failed == Ran(which, FALSE) \o Ran("runtime exec install ansible", FALSE)
    IN  { [calls |-> Ran(which, TRUE), proceed |-> TRUE] }
        \cup
        ( IF ~auto_install
          THEN { [calls |-> Ran(which, FALSE), proceed |-> TRUE] }
          ELSE { [calls |-> Ran(which, FALSE) \o py_failed, proceed |-> FALSE] }
               \cup { [calls |-> Ran(which, FALSE) \o py \o ans, proceed |-> TRUE] :
                        py \in {py_found, py_installed}, ans \in {ans_found, ans_installed} }
               \cup { [calls |-> Ran(which, FALSE) \o py \o ans_failed, proceed |-> FALSE] :
                        py \in {py_found, py_installed} } )

\* _check_ansible_in_container and the auto-install of Python and Ansible:
\* the commands run, and whether provisioning goes on (else it is skipped)
BootstrapOutcomes(auto_install) ==
    LET which == "runtime exec which ansible"
        py_found == Ran("runtime exec which python3", TRUE)
        py_installed == Ran("runtime exec which python3", FALSE)
                        \o Ran("runtime exec install python", TRUE)
        py_failed == Ran("runtime exec which python3", FALSE)
                     \o Ran("runtime exec install python", FALSE)
        ans_found == Ran(which, TRUE)
        ans_installed == Ran(which, FALSE) \o Ran("runtime exec install ansible", TRUE)
        ans_failed == Ran(which, FALSE) \o Ran("runtime exec install ansible", FALSE)
    IN  { [calls |-> Ran(which, TRUE), proceed |-> TRUE] }
        \cup
        ( IF ~auto_install
          THEN { [calls |-> Ran(which, FALSE), proceed |-> FALSE] }
          ELSE { [calls |-> Ran(which, FALSE) \o py_failed, proceed |-> FALSE] }
               \cup { [calls |-> Ran(which, FALSE) \o py \o ans, proceed |-> TRUE] :
                        py \in {py_found, py_installed}, ans \in {ans_found, ans_installed} }
               \cup { [calls |-> Ran(which, FALSE) \o py \o ans_failed, proceed |-> FALSE] :
                        py \in {py_found, py_installed} } )

\* the except clauses of _run_provisioning: a VagrantpError passes, any
\* other exception becomes VagrantpError(PROVISIONING_FAILED)
WrapUnexpected(r) ==
    IF r.outcome = "ok" \/ r.outcome \in VagrantpErrors THEN r
    ELSE [r EXCEPT !.outcome = "VagrantpError", !.code = "PROVISIONING_FAILED"]

\* the try block of _run_provisioning for a result r of the playbook run
MarkAfterRun(r) ==
    IF r.outcome = "ok"
    THEN Return(ProvisioningManager_mark_provisioned(r.w), r.calls)
    ELSE WrapUnexpected(r)

\* _run_provisioning from the point where no record says "provisioned"
\* config: [playbook: PROVISIONING_PLAYBOOK is set,
\*          auto_install: PROVISIONING_AUTO_INSTALL_ANSIBLE is true]
run_provisioning_unprovisioned(w, kind, config) ==
    IF kind = "vm"
    THEN UNION {
           LET exit0 == sshcfg_ok /\ w.backend = "running"
               c1 == Ran("vagrant ssh-config", exit0)
               c2 == IF exit0
                     THEN c1 \o ProvisioningManager_verify_ssh_connection(w, verify_ok).calls
                     ELSE c1
           IN  { LET r == MarkAfterRun(ProvisioningManager_execute(w, FALSE, rc))
                 IN  [r EXCEPT !.calls = c2 \o @] : rc \in 0..MaxExit }
           : sshcfg_ok \in BOOLEAN, verify_ok \in BOOLEAN }
    ELSE UNION {
           LET state == ContainerManager_get_state(w.backend, query_ok)
               c1 == Ran("podman ps", query_ok)
           IN  IF state # RUNNING
               THEN { Raise(w, c1, "VagrantpError", "GENERAL_ERROR", 0) }
               ELSE { Raise(w, c1 \o Ran("detect runtime", FALSE),
                            "VagrantpError", "GENERAL_ERROR", 0) }
                    \cup
                    UNION {
                      LET c2 == c1 \o Ran("detect runtime", TRUE) \o boot.calls
                      IN  IF ~boot.proceed
                          THEN { ReturnNote(w, c2, "Skipping provisioning") }
                          ELSE { LET r == MarkAfterRun(
                                            run_container_playbook(w, playbook_exists, copy_ok, rc))
                                 IN  [r EXCEPT !.calls = c2 \o @] :
                                 playbook_exists \in BOOLEAN, copy_ok \in BOOLEAN,
                                 rc \in 0..MaxExit }
                      : boot \in BootstrapOutcomes(config.auto_install) }
           : query_ok \in BOOLEAN }

\* _run_provisioning without its look at the record
run_provisioning_no_check(w, kind, config) ==
    IF ~config.playbook THEN { ReturnNote(w, << >>, "No playbook specified") }
    ELSE run_provisioning_unprovisioned(w, kind, config)

run_provisioning(w, kind, config) ==
    IF ~config.playbook THEN { ReturnNote(w, << >>, "No playbook specified") }
    ELSE IF ProvisioningManager_check_provisioning_status(w)
    THEN { ReturnNote(w, << >>, "already provisioned") }
    ELSE run_provisioning_unprovisioned(w, kind, config)

-----------------------------------------------------------------------------
(* cli/main.py: the commands.  A command that ends with an exception other
   than "ok" exits with a non-zero code: see ExitCode. *)

Configs == [playbook : BOOLEAN, auto_install : BOOLEAN]

\* parser.load() of a command: the configuration source is there or not
ConfigSources == {"absent", "present"}

ConfigAbsent(w) == Raise(w, << >>, "FileNotFoundError", "NONE", 0)

\* a command that provisions whatever --no-provision says
ProvisionAfter_ignores_no_provision(R, kind, no_provision, config) ==
    IF config.playbook
    THEN UNION { Continue(r, run_provisioning(r.w, kind, config)) : r \in R }
    ELSE R

\* a command that goes on to provisioning though create() or start() raised
ProvisionAfter_despite_error(R, kind, no_provision, config) ==
    IF ~no_provision /\ config.playbook
    THEN UNION { { [r2 EXCEPT !.calls = r.calls \o @] : r2 \in run_provisioning(r.w, kind, config) }
                 : r \in R }
    ELSE R

\* provisioning after a create() or start() that returned
ProvisionAfter(R, kind, no_provision, config) ==
    IF ~no_provision /\ config.playbook
    THEN UNION { Continue(r, run_provisioning(r.w, kind, config)) : r \in R }
    ELSE R

\* valid: parser.validate() found no error
up(w, kind, dry_run, no_provision, source, valid, config) ==
    IF source = "absent" THEN { ConfigAbsent(w) }
    ELSE IF ~valid THEN { Raise(w, << >>, "SystemExit", "CONFIG_ERROR", 0) }
    ELSE IF dry_run THEN { Return(w, << >>) }
    ELSE UNION {
           LET current_state == GetState(kind, w.backend, query_ok)
               c1 == ProbeCall(kind, query_ok)
           IN  IF current_state # NOT_CREATED
               THEN IF current_state = RUNNING
                    THEN { Raise(w, c1, "InfrastructureExistsError", "INFRA_EXISTS", 0) }
                    ELSE IF current_state = STOPPED
                    THEN ProvisionAfter(Continue(Return(w, c1), Manager_start(w, kind)),
                                        kind, no_provision, config)
                    ELSE { Return(w, c1) }
               ELSE ProvisionAfter(Continue(Return(w, c1), Manager_create(w, kind)),
                                   kind, no_provision, config)
           : query_ok \in BOOLEAN }

ssh(w, kind, source) ==
    IF source = "absent" THEN { ConfigAbsent(w) }
    ELSE Manager_connect(w, kind)

stop(w, kind, force, source) ==
    IF source = "absent" THEN { ConfigAbsent(w) }
    ELSE Manager_stop(w, kind, force)

\* rm that leaves the record as remove() left it
rm_keeps_record(w, kind, force, source, confirmed) ==
    IF source = "absent" THEN { ConfigAbsent(w) }
    ELSE UNION {
           LET state == GetState(kind, w.backend, query_ok)
               c1 == IF force THEN << >> ELSE ProbeCall(kind, query_ok)
           IN  IF ~force /\ state # NOT_CREATED /\ ~confirmed
               THEN { ReturnNote(w, c1, "Removal cancelled") }
               ELSE Continue(Return(w, c1), Manager_remove(w, kind, force))
           : query_ok \in BOOLEAN }

\* confirmed: the user typed yes at the prompt
rm(w, kind, force, source, confirmed) ==
    IF source = "absent" THEN { ConfigAbsent(w) }
    ELSE UNION {
           LET state == GetState(kind, w.backend, query_ok)
               c1 == IF force THEN << >> ELSE ProbeCall(kind, query_ok)
           IN  IF ~force /\ state # NOT_CREATED /\ ~confirmed
               THEN { ReturnNote(w, c1, "Removal cancelled") }
               ELSE UNION {
                      Continue(r, { Return(ProvisioningManager_clear_provisioned_status(r.w),
                                           << >>) })
                      : r \in Continue(Return(w, c1), Manager_remove(w, kind, force)) }
           : query_ok \in BOOLEAN }

\* the exit code of a command that ended r
ExitCode(r) ==
    CASE r.outcome = "ok" -> 0
      [] r.code = "GENERAL_ERROR" -> 1
      [] r.code = "CONFIG_ERROR" -> 2
      [] r.code = "INFRA_EXISTS" -> 3
      [] r.code = "INSUFFICIENT_RESOURCES" -> 4
      [] r.code = "PROVIDER_NOT_AVAILABLE" -> 5
      [] r.code = "PORT_CONFLICT" -> 6
      [] r.code = "PROVISIONING_FAILED" -> 7
      [] OTHER -> 1

-----------------------------------------------------------------------------
(* The state machine *)

NoCall ==
    [ op |-> "none", force |-> FALSE, dry_run |-> FALSE, no_provision |-> FALSE,
      auto_install |-> FALSE, source |-> "none", valid |-> TRUE,
      pre |-> [ backend |-> "absent", vagrantp_provisioned |-> FALSE,
                provisioned |-> FALSE, inventory_file |-> FALSE,
                vagrantfile |-> FALSE, runs |-> 0, state_cache |-> "none" ],
      calls |-> << >>, outcome |-> "ok", code |-> "SUCCESS", status |-> 0,
      note |-> "" ]

\* no current_state() on an arbitrary output made yet
NoProbe == [ kind |-> "none", how |-> "none", lines |-> << >>, state |-> NOT_CREATED ]

\* no call on a .provisioned file made yet, in fresh project directories
NoRecord == [ op |-> "none", handle |-> "none", before |-> {}, files |-> {} ]

\* no call of the configuration parser made yet
NoParse == [ fn |-> "none" ]

Init ==
    /\ infra_type \in InfraTypes
    /\ backend = "absent"
    /\ vagrantp_provisioned = FALSE
    /\ provisioned = FALSE
    /\ inventory_file = FALSE
    /\ vagrantfile = FALSE
    /\ runs = 0
    /\ state_cache = "none"
    /\ probe = NoProbe
    /\ record = NoRecord
    /\ parsed = NoParse
    /\ last = NoCall

\* the call op ended r
\* auto_install: PROVISIONING_AUTO_INSTALL_ANSIBLE of the configuration a
\* direct call of _run_provisioning was given
\* source, valid: what parser.load() and parser.validate() found when a
\* command ran ("none": the call is not a command)
ApplyCmd(op, force, dry_run, no_provision, auto_install, source, valid, r) ==
    /\ backend' = r.w.backend
    /\ vagrantp_provisioned' = r.w.vagrantp_provisioned
    /\ provisioned' = r.w.provisioned
    /\ inventory_file' = r.w.inventory_file
    /\ vagrantfile' = r.w.vagrantfile
    /\ runs' = r.w.runs
    /\ state_cache' = r.w.state_cache
    /\ last' = [ op |-> op, force |-> force, dry_run |-> dry_run,
                 no_provision |-> no_provision, auto_install |-> auto_install,
                 source |-> source, valid |-> valid,
                 pre |-> World,
                 calls |-> r.calls, outcome |-> r.outcome, code |-> r.code,
                 status |-> r.status, note |-> r.note ]
    /\ UNCHANGED << infra_type, probe, record, parsed >>

ApplyWith(op, force, dry_run, no_provision, auto_install, r) ==
    ApplyCmd(op, force, dry_run, no_provision, auto_install, "none", TRUE, r)

Apply(op, force, dry_run, no_provision, r) ==
    ApplyWith(op, force, dry_run, no_provision, FALSE, r)

\* a caller of the manager's methods
CallCreate == \E r \in Manager_create(World, infra_type) :
                 Apply("create", FALSE, FALSE, FALSE, r)

CallStart == \E r \in Manager_start(World, infra_type) :
                Apply("start", FALSE, FALSE, FALSE, r)

CallConnect == \E r \in Manager_connect(World, infra_type) :
                  Apply("connect", FALSE, FALSE, FALSE, r)

CallResolveAddress == \E r \in Manager_resolve_address(World, infra_type) :
                         Apply("resolve_address", FALSE, FALSE, FALSE, r)

CallStop == \E force \in BOOLEAN : \E r \in Manager_stop(World, infra_type, force) :
               Apply("stop", force, FALSE, FALSE, r)

CallRemove == \E force \in BOOLEAN : \E r \in Manager_remove(World, infra_type, force) :
                 Apply("remove", force, FALSE, FALSE, r)

\* a caller of AnsibleProvisioner.execute()
CallExecute ==
    \E dry_run \in BOOLEAN :
      \E r \in { AnsibleProvisioner_execute(World, infra_type, dry_run, x[1], x[2],
                                            x[3], x[4], rc) :
                   x \in BOOLEAN \X BOOLEAN \X BOOLEAN \X BOOLEAN, rc \in 0..MaxExit } :
        Apply("execute", FALSE, dry_run, FALSE, r)

\* the user at the command line
CmdUp ==
    \E dry_run, no_provision \in BOOLEAN :
      \E source \in ConfigSources, valid \in BOOLEAN :
        \E r \in UNION { up(World, infra_type, dry_run, no_provision, source, valid, config) :
                           config \in Configs } :
          ApplyCmd("up", FALSE, dry_run, no_provision, FALSE, source, valid, r)

CmdSsh == \E source \in ConfigSources : \E r \in ssh(World, infra_type, source) :
             ApplyCmd("ssh", FALSE, FALSE, FALSE, FALSE, source, TRUE, r)

CmdStop == \E force \in BOOLEAN, source \in ConfigSources :
              \E r \in stop(World, infra_type, force, source) :
                ApplyCmd("cli stop", force, FALSE, FALSE, FALSE, source, TRUE, r)

CmdRm ==
    \E force \in BOOLEAN, source \in ConfigSources :
      \E r \in UNION { rm(World, infra_type, force, source, confirmed) :
                         confirmed \in BOOLEAN } :
        ApplyCmd("rm", force, FALSE, FALSE, FALSE, source, TRUE, r)

Next ==
    \/ CallCreate
    \/ CallStart
    \/ CallConnect
    \/ CallResolveAddress
    \/ CallStop
    \/ CallRemove
    \/ CallExecute
    \/ CmdUp
    \/ CmdSsh
    \/ CmdStop
    \/ CmdRm

Spec == Init /\ [][Next]_vars

-----------------------------------------------------------------------------
(* current_state() on every output the backend tool can print *)

\* longest output, in lines
MaxLines == 2

\* records of vagrant status --machine-readable, and lines that are none
VagrantLines ==
    { << "1700000000", "default", "state", word >> :
        word \in {"running", "Running", "poweroff", "aborted", "stopped",
                  "not_created", "saved"} }
    \cup { << "1700000000", "default", "state-human-short", "running" >>,
           << "1700000000", "", "ui", "info", "Current machine states:" >>,
           << "", "", "running" >>,
           << "", "", "state", "running" >>,
           << "vagrant: command output" >> }

\* lines of podman ps -a --format "{{.Names}}\t{{.Status}}", and lines
\* without a TAB
PodmanLines ==
    { << name, status >> :
        name \in {infra_id, other_id, "web2"},
        status \in { PodmanStatusText("running"), PodmanStatusText("halted"),
                     PodmanStatusText("created"),
                     << "S", "t", "o", "p", "p", "e", "d" >>,
                     << "P", "a", "u", "s", "e", "d" >> } }
    \cup { << infra_id >>, << "" >> }

\* the outputs of at most MaxLines lines over the lines of L
Outputs(L) == UNION { [1..n -> L] : n \in 0..MaxLines }

\* _check_container_exists on the same listing, printed as names only: the
\* exit status is not looked at (check=False)
ContainerManager_check_container_exists_of(how, lines) ==
    /\ how # "exception"
    /\ \E i \in 1..Len(lines) : lines[i][1] = infra_id

\* one query per behaviour: a query depends on no earlier one
CurrentStateVM ==
    /\ probe = NoProbe
    /\ \E how \in QueryOutcomes, lines \in Outputs(VagrantLines) :
          probe' = [ kind |-> "vm", how |-> how, lines |-> lines,
                     state |-> VMManager_get_state_of(how, lines) ]
    /\ UNCHANGED << infra_type, backend, vagrantp_provisioned, provisioned,
                    inventory_file, vagrantfile, runs, state_cache, record, parsed, last >>

CurrentStateContainer ==
    /\ probe = NoProbe
    /\ \E how \in QueryOutcomes, lines \in Outputs(PodmanLines) :
          probe' = [ kind |-> "container", how |-> how, lines |-> lines,
                     state |-> ContainerManager_get_state_of(how, lines),
                     exists |-> ContainerManager_check_container_exists_of(how, lines) ]
    /\ UNCHANGED << infra_type, backend, vagrantp_provisioned, provisioned,
                    inventory_file, vagrantfile, runs, state_cache, record, parsed, last >>

NextProbe ==
    \/ CurrentStateVM
    \/ CurrentStateContainer

SpecProbe == Init /\ [][NextProbe]_vars

-----------------------------------------------------------------------------
(* The managers in a project directory whose .vagrantp-state holds anything *)

InitManagers ==
    /\ infra_type \in InfraTypes
    /\ backend = "absent"
    /\ vagrantp_provisioned = FALSE
    /\ provisioned = FALSE
    /\ inventory_file = FALSE
    /\ vagrantfile = FALSE
    /\ runs = 0
    /\ state_cache \in CacheContents
    /\ probe = NoProbe
    /\ record = NoRecord
    /\ parsed = NoParse
    /\ last = [NoCall EXCEPT !.pre.state_cache = state_cache]

NextManagers ==
    \/ CallCreate
    \/ CallStart
    \/ CallConnect
    \/ CallResolveAddress
    \/ CallStop
    \/ CallRemove

SpecManagers == InitManagers /\ [][NextManagers]_vars

-----------------------------------------------------------------------------

-----------------------------------------------------------------------------
(* Provisioning on its own: _run_provisioning and execute() against an
   instance the managers have brought to any state *)

\* _run_provisioning(infra_id, config, infra_type)
CallRunProvisioning ==
    \E config \in Configs :
      \E r \in run_provisioning(World, infra_type, config) :
        ApplyWith("provision", FALSE, FALSE, FALSE, config.auto_install, r)

NextProvision ==
    \/ CallCreate
    \/ CallStart
    \/ CallStop
    \/ CallRemove
    \/ CallExecute
    \/ CallRunProvisioning

SpecProvision == Init /\ [][NextProvision]_vars

-----------------------------------------------------------------------------
(* The .provisioned marker of AnsibleProvisioner for several instances and
   several project directories.  The variable provisioned is the marker of
   the one project directory of the other specifications. *)

ProjectDirs == {"/srv/web", "/srv/db", "/srv/cache"}

InfraIds == {infra_id, other_id, "cache"}

\* AnsibleProvisioner(project_dir, infra_type, infra_id)
Handles == [ project_dir : ProjectDirs, infra_id : InfraIds ]

\* self.provisioning_marker = self.project_dir / ".provisioned": the file is
\* named by its directory
provisioning_marker(h) == h.project_dir

\* files: the directories that hold a .provisioned file
is_provisioned(h, files) == provisioning_marker(h) \in files

mark_provisioned(h, files) == files \cup { provisioning_marker(h) }

clear_provisioning_marker(h, files) == files \ { provisioning_marker(h) }

MarkProvisioned ==
    \E h \in Handles :
        /\ record' = [ op |-> "mark", handle |-> h, before |-> record.files,
                       files |-> mark_provisioned(h, record.files) ]
        /\ UNCHANGED << infra_type, backend, vagrantp_provisioned, provisioned,
                        inventory_file, vagrantfile, runs, state_cache, probe, parsed, last >>

ClearProvisioningMarker ==
    \E h \in Handles :
        /\ record' = [ op |-> "clear", handle |-> h, before |-> record.files,
                       files |-> clear_provisioning_marker(h, record.files) ]
        /\ UNCHANGED << infra_type, backend, vagrantp_provisioned, provisioned,
                        inventory_file, vagrantfile, runs, state_cache, probe, parsed, last >>

NextRecord ==
    \/ MarkProvisioned
    \/ ClearProvisioningMarker

SpecRecord == Init /\ [][NextRecord]_vars

-----------------------------------------------------------------------------
(* ConfigValidator: config/parser.py.  Values are texts. *)

\* str.upper(), for the letters the texts below are written with
Upper(s) ==
    LET UpperChar(c) ==
            CASE c = "g" -> "G"
              [] c = "m" -> "M"
              [] c = "b" -> "B"
              [] c = "a" -> "A"
              [] c = "c" -> "C"
              [] OTHER -> c
    IN  [i \in 1..Len(s) |-> UpperChar(s[i])]

\* str.strip(), for texts whose only whitespace is the blank
RECURSIVE Strip(_)
Strip(s) ==
    IF s = << >> THEN s
    ELSE IF Head(s) = " " THEN Strip(Tail(s))
    ELSE IF s[Len(s)] = " " THEN Strip(SubSeq(s, 1, Len(s) - 1))
    ELSE s

DigitChars == << "0", "1", "2", "3", "4", "5", "6", "7", "8", "9" >>

\* the characters int() and the pattern \d take for digits
isdecimal(s) == s # << >> /\ \A i \in 1..Len(s) : \E d \in 1..10 : s[i] = DigitChars[d]

\* str.isdigit().  "^2" stands for the one character SUPERSCRIPT TWO
\* (U+00B2): a digit to str.isdigit(), not to int() nor to the pattern \d
isdigit(s) ==
    /\ s # << >>
    /\ \A i \in 1..Len(s) : s[i] = "^2" \/ \E d \in 1..10 : s[i] = DigitChars[d]

\* int(s) of a text that is all digits
RECURSIVE int_of_digits(_)
int_of_digits(s) ==
    IF s = << >> THEN 0
    ELSE int_of_digits(SubSeq(s, 1, Len(s) - 1)) * 10
            + (CHOOSE d \in 1..10 : DigitChars[d] = s[Len(s)]) - 1

\* int(s): blanks around, a sign, decimals; ok is false for ValueError
int_literal(s) ==
    LET t == Strip(s)
        signed == t # << >> /\ Head(t) \in { "+", "-" }
        body == IF signed THEN Tail(t) ELSE t
    IN  IF ~isdecimal(body) THEN [ ok |-> FALSE, value |-> 0 ]
        ELSE IF signed /\ Head(t) = "-" THEN [ ok |-> TRUE, value |-> 0 - int_of_digits(body) ]
        ELSE [ ok |-> TRUE, value |-> int_of_digits(body) ]

\* the decimal text of n
RECURSIVE Digits(_)
Digits(n) ==
    IF n < 10 THEN << DigitChars[n + 1] >>
    ELSE Digits(n \div 10) \o << DigitChars[(n % 10) + 1] >>

\* re.match(r"^(\d+)(G|M|GB|MB)?$", s): the groups, or no match
SizePattern(s) ==
    LET lead == { k \in 0..Len(s) : \A i \in 1..k : \E d \in 1..10 : s[i] = DigitChars[d] }
        k == CHOOSE k \in lead : \A j \in lead : j <= k
        unit == SubSeq(s, k + 1, Len(s))
    IN  IF k >= 1 /\ unit \in { << >>, << "G" >>, << "M" >>, << "G", "B" >>, << "M", "B" >> }
        THEN [ match |-> TRUE, value |-> SubSeq(s, 1, k), unit |-> unit ]
        ELSE [ match |-> FALSE, value |-> << >>, unit |-> << >> ]

\* how a parsing ends: the value returned, or the ValidationError raised
\* with its field and the text its message quotes
Parsed(value) == [ raised |-> "none", field |-> "", quoted |-> << >>, value |-> value ]

Invalid(field, quoted) ==
    [ raised |-> "ValidationError", field |-> field, quoted |-> quoted, value |-> 0 ]

\* int() raised and nothing caught it
ValueError == [ raised |-> "ValueError", field |-> "", quoted |-> << >>, value |-> 0 ]

\* megabytes
ConfigurationParser_parse_memory(memory_str) ==
    LET s == Upper(Strip(memory_str))
        m == SizePattern(s)
    IN  IF isdigit(s)
        THEN IF int_literal(s).ok THEN Parsed(int_literal(s).value) ELSE ValueError
        ELSE IF ~m.match THEN Invalid("MEMORY", s)
        ELSE IF m.unit \in { << "G" >>, << "G", "B" >> }
        THEN Parsed(int_of_digits(m.value) * 1024)
        ELSE Parsed(int_of_digits(m.value))

\* gigabytes
ConfigurationParser_parse_disk_size(disk_str) ==
    LET s == Upper(Strip(disk_str))
        m == SizePattern(s)
    IN  IF isdigit(s)
        THEN IF int_literal(s).ok THEN Parsed(int_literal(s).value) ELSE ValueError
        ELSE IF ~m.match THEN Invalid("DISK_SIZE", s)
        ELSE IF m.unit \in { << "M" >>, << "M", "B" >> }
        THEN Parsed(int_of_digits(m.value) \div 1024)
        ELSE Parsed(int_of_digits(m.value))

-----------------------------------------------------------------------------
(* The parser on the texts a configuration file can hold *)

\* a size as it was written: blanks, the digits of n, a suffix, blanks;
\* or a text that is no such writing
SizeTexts ==
    LET Amounts == {0, 1, 4, 5, 7, 511, 512, 1024, 5119, 5120, 10240}
        Suffixes ==
            { << >>, << "M" >>, << "M", "B" >>, << "G" >>, << "G", "B" >>,
              << "g" >>, << "m", "b" >>, << "X" >>, << "K" >>, << "G", "B", "B" >>,
              << " ", "G" >> }
        Blanks == { << >>, << " " >> }
    IN  { [ text |-> p[1] \o Digits(n) \o u \o p[2], written |-> TRUE, n |-> n,
            unit |-> u, padded |-> p # << << >>, << >> >> ] :
            n \in Amounts, u \in Suffixes, p \in Blanks \X Blanks }
        \cup
        { [ text |-> t, written |-> FALSE, n |-> 0, unit |-> << >>, padded |-> FALSE ] :
            t \in { << >>, << "a", "b", "c" >>, << "G" >>, << "-", "5" >>,
                    << "1", ".", "5", "G" >>, << "2", "G", "5" >>,
                    << "^2" >>, << "^2", "G" >> } }

\* str.split(sep)
RECURSIVE Split(_, _)
Split(s, sep) ==
    IF \E i \in 1..Len(s) : s[i] = sep
    THEN LET i == CHOOSE i \in 1..Len(s) : s[i] = sep /\ \A j \in 1..(i - 1) : s[j] # sep
         IN  << SubSeq(s, 1, i - 1) >> \o Split(SubSeq(s, i + 1, Len(s)), sep)
    ELSE << s >>

\* one mapping of the list: its entry, or ok false for ValidationError
parse_port_mapping(text) ==
    LET mapping == Strip(text)
        colon == CHOOSE i \in 1..Len(mapping) :
                    mapping[i] = ":" /\ \A j \in 1..(i - 1) : mapping[j] # ":"
        host_port == Strip(SubSeq(mapping, 1, colon - 1))
        container_port == Strip(SubSeq(mapping, colon + 1, Len(mapping)))
    IN  IF ~\E i \in 1..Len(mapping) : mapping[i] = ":"
        THEN [ ok |-> FALSE, mapping |-> mapping ]
        ELSE IF Lower(host_port) = << "a", "u", "t", "o" >>
        THEN IF int_literal(container_port).ok
             THEN [ ok |-> TRUE, mapping |-> mapping,
                    entry |-> [ host |-> 0, container |-> int_literal(container_port).value,
                                auto |-> TRUE ] ]
             ELSE [ ok |-> FALSE, mapping |-> mapping ]
        ELSE IF int_literal(host_port).ok /\ int_literal(container_port).ok
             THEN [ ok |-> TRUE, mapping |-> mapping,
                    entry |-> [ host |-> int_literal(host_port).value,
                                container |-> int_literal(container_port).value,
                                auto |-> FALSE ] ]
             ELSE [ ok |-> FALSE, mapping |-> mapping ]

\* _parse_ports that passes over a mapping it cannot read
ConfigurationParser_parse_ports_skips(ports_str) ==
    LET mappings == [ i \in 1..Len(Split(ports_str, ",")) |->
                        parse_port_mapping(Split(ports_str, ",")[i]) ]
    IN  Parsed([ i \in 1..Len(SelectSeq(mappings, LAMBDA m : m.ok)) |->
                    SelectSeq(mappings, LAMBDA m : m.ok)[i].entry ])

\* the entries in the order of the list, or the first mapping that is not one
ConfigurationParser_parse_ports(ports_str) ==
    LET mappings == [ i \in 1..Len(Split(ports_str, ",")) |->
                        parse_port_mapping(Split(ports_str, ",")[i]) ]
        bad == { i \in 1..Len(mappings) : ~mappings[i].ok }
    IN  IF bad # {}
        THEN Invalid("PORTS", mappings[CHOOSE i \in bad : \A j \in bad : i <= j].mapping)
        ELSE Parsed([ i \in 1..Len(mappings) |-> mappings[i].entry ])

\* the longest list of mappings
MaxPorts == 2

\* a mapping as it was written: wf says whether it is HOST:GUEST with
\* GUEST a number and HOST a number or the token auto, "signed" that a
\* side is negative, "range" that a side is above 65535
PortEntries ==
    LET Guests == { 80, 443 }
        Shapes == { << << >>, << ":" >>, << >> >>, << << " " >>, << " ", ":", " " >>, << " " >> >> }
    IN  { [ text |-> p[1] \o Digits(h) \o p[2] \o Digits(g) \o p[3], wf |-> "yes",
            auto |-> FALSE, host |-> h, guest |-> g ] :
            h \in { 0, 8080, 65535 }, g \in Guests, p \in Shapes }
        \cup
        { [ text |-> a \o << ":" >> \o Digits(g), wf |-> "yes",
            auto |-> TRUE, host |-> 0, guest |-> g ] :
            a \in { << "a", "u", "t", "o" >>, << "A", "U", "T", "O" >>,
                    << "A", "u", "t", "o" >> }, g \in Guests }
        \cup
        { [ text |-> t, wf |-> "signed", auto |-> FALSE, host |-> 0, guest |-> 80 ] :
            t \in { << "-", "1", ":", "8", "0" >>, << "8", "0", ":", "-", "1" >> } }
        \cup
        { [ text |-> t, wf |-> "range", auto |-> FALSE, host |-> 0, guest |-> 80 ] :
            t \in { << "7", "0", "0", "0", "0", ":", "8", "0" >>,
                    << "8", "0", ":", "6", "5", "5", "3", "6" >>,
                    << "a", "u", "t", "o", ":", "6", "5", "5", "3", "6" >> } }
        \cup
        { [ text |-> t, wf |-> "no", auto |-> FALSE, host |-> 0, guest |-> 0 ] :
            t \in { << >>, << "8", "0", "8", "0" >>, << "a", ":", "8", "0" >>,
                    << "8", "0", ":", "b" >>, << "8", "0", ":" >>, << ":", "8", "0" >>,
                    << "^2", ":", "8", "0" >>, << "8", "0", ":", "8", "0", ":", "9", "0" >>,
                    << "a", "u", "t", "o" >>, << "a", "u", "t", "o", ":" >> } }

\* the lists of up to MaxPorts mappings, joined with commas
PortTexts ==
    LET RECURSIVE Join(_)
        Join(es) == IF Len(es) = 1 THEN es[1].text
                    ELSE es[1].text \o << "," >> \o Join(Tail(es))
    IN  { [ text |-> Join(es), entries |-> es ] :
            es \in UNION { [ 1..n -> PortEntries ] : n \in 1..MaxPorts } }

\* ipaddress.IPv4Address(ip_str) does not raise AddressValueError: four
\* dotted decimal octets of at most three digits, no leading zero, at most 255
ConfigurationParser_validate_ipv4(ip_str) ==
    LET octets == Split(ip_str, ".")
    IN  /\ Len(octets) = 4
        /\ \A i \in 1..4 :
              /\ isdecimal(octets[i])
              /\ Len(octets[i]) <= 3
              /\ Len(octets[i]) > 1 => octets[i][1] # "0"
              /\ int_of_digits(octets[i]) <= 255

\* the paths that exist on disk
Files == { << "s", ".", "y", "m", "l" >>, << "s", ".", "t", "x", "t" >>, << "v", ".", "y", "m", "l" >> }

\* validate() on the mapping config: the ValidationResult, or the exception
\* that leaves it.  An error is written as its message without the value
\* it quotes.
ConfigurationParser_validate(config) ==
    LET has(k) == k \in DOMAIN config
        message(e) ==
            CASE e.field = "MEMORY" -> "Invalid MEMORY format"
              [] e.field = "DISK_SIZE" -> "Invalid DISK_SIZE format"
              [] e.field = "PORTS" -> "Invalid port mapping"
        suffix(p) ==
            LET dots == { i \in 2..Len(p) : p[i] = "." }
            IN  IF dots = {} THEN << >>
                ELSE SubSeq(p, CHOOSE i \in dots : \A j \in dots : j <= i, Len(p))
        memory == ConfigurationParser_parse_memory(config["MEMORY"])
        disk == ConfigurationParser_parse_disk_size(config["DISK_SIZE"])
        ports == ConfigurationParser_parse_ports(config["PORTS"])
        e_infra ==
            IF ~has("INFRA_TYPE") THEN << "INFRA_TYPE is required" >>
            ELSE (IF config["INFRA_TYPE"] \notin { "vm", "container" }
                  THEN << "INFRA_TYPE must be 'vm' or 'container'" >> ELSE << >>)
                 \o (IF config["INFRA_TYPE"] = "vm" /\ ~has("PROVIDER")
                     THEN << "PROVIDER is required for VM infrastructure" >> ELSE << >>)
        warnings ==
            IF has("INFRA_TYPE") /\ config["INFRA_TYPE"] = "container" /\ has("DISK_SIZE")
            THEN << "DISK_SIZE is not applicable for container infrastructure" >>
            ELSE << >>
        e_memory ==
            IF ~has("MEMORY") THEN << >>
            ELSE IF memory.raised = "ValidationError" THEN << message(memory) >>
            ELSE IF memory.value < 512 THEN << "MEMORY must be at least 512MB" >>
            ELSE << >>
        e_cpus ==
            IF ~has("CPUS") THEN << >>
            ELSE IF ~int_literal(config["CPUS"]).ok THEN << "Invalid CPUS value" >>
            ELSE IF int_literal(config["CPUS"]).value < 1 THEN << "CPUS must be at least 1" >>
            ELSE << >>
        e_disk ==
            IF ~has("DISK_SIZE") THEN << >>
            ELSE IF disk.raised = "ValidationError" THEN << message(disk) >>
            ELSE IF disk.value < 5 THEN << "DISK_SIZE must be at least 5GB" >>
            ELSE << >>
        e_network ==
            IF has("NETWORK_MODE") /\ config["NETWORK_MODE"] \notin { "bridge", "default" }
            THEN << "NETWORK_MODE must be 'bridge' or 'default'" >> ELSE << >>
        e_ip ==
            IF has("IP_ADDRESS") /\ ~ConfigurationParser_validate_ipv4(config["IP_ADDRESS"])
            THEN << "Invalid IP_ADDRESS format" >> ELSE << >>
        e_ports ==
            IF has("PORTS") /\ ports.raised = "ValidationError"
            THEN << message(ports) >> ELSE << >>
        e_playbook ==
            IF ~has("PROVISIONING_PLAYBOOK") THEN << >>
            ELSE (IF config["PROVISIONING_PLAYBOOK"] \notin Files
                  THEN << "PROVISIONING_PLAYBOOK not found" >> ELSE << >>)
                 \o (IF suffix(config["PROVISIONING_PLAYBOOK"])
                            \notin { << ".", "y", "m", "l" >>, << ".", "y", "a", "m", "l" >> }
                     THEN << "PROVISIONING_PLAYBOOK must be a .yml or .yaml file" >>
                     ELSE << >>)
        e_vars ==
            IF has("PROVISIONING_VARS") /\ config["PROVISIONING_VARS"] \notin Files
            THEN << "PROVISIONING_VARS not found" >> ELSE << >>
        e_auto ==
            IF has("PROVISIONING_AUTO_INSTALL_ANSIBLE")
               /\ Lower(config["PROVISIONING_AUTO_INSTALL_ANSIBLE"])
                    \notin { << "t", "r", "u", "e" >>, << "f", "a", "l", "s", "e" >>,
                             << "1" >>, << "0" >>, << "y", "e", "s" >>, << "n", "o" >> }
            THEN << "PROVISIONING_AUTO_INSTALL_ANSIBLE must be true/false, 1/0, or yes/no" >>
            ELSE << >>
        errors == e_infra \o e_memory \o e_cpus \o e_disk \o e_network \o e_ip
                    \o e_ports \o e_playbook \o e_vars \o e_auto
    IN  IF has("MEMORY") /\ memory.raised = "ValueError" THEN ValueError
        ELSE IF has("DISK_SIZE") /\ disk.raised = "ValueError" THEN ValueError
        ELSE Parsed([ valid |-> Len(errors) = 0, errors |-> errors, warnings |-> warnings ])

\* the mappings validate() is given: for each key either no entry or a
\* value, noted with the number it stands for, if any, and the rules it
\* breaks
ValidateInputs ==
    LET V(text, amount, breaks) ==
            [ absent |-> FALSE, text |-> text, numeric |-> TRUE, amount |-> amount,
              breaks |-> breaks ]
        W(text, breaks) ==
            [ absent |-> FALSE, text |-> text, numeric |-> FALSE, amount |-> 0,
              breaks |-> breaks ]
        NoText == [ absent |-> TRUE, text |-> << >>, numeric |-> FALSE, amount |-> 0,
                    breaks |-> {} ]
        NoWord == [ absent |-> TRUE, text |-> "", numeric |-> FALSE, amount |-> 0,
                    breaks |-> {} ]
        Kinds == { NoWord, W("vm", {}), W("container", {}), W("bogus", {}) }
        Memories ==
            { NoText,
              V(<< "0" >>, 0, { "MEMORY must be at least 512MB" }),
              V(<< "5", "1", "1" >>, 511, { "MEMORY must be at least 512MB" }),
              V(<< "5", "1", "2" >>, 512, {}),
              V(<< "1", "G" >>, 1024, {}),
              V(<< " ", "5", "1", "2", "m", "b", " " >>, 512, {}),
              W(<< "a", "b", "c" >>, { "Invalid MEMORY format" }),
              W(<< "^2" >>, { "Invalid MEMORY format" }) }
        Cpus ==
            { NoText,
              V(<< "0" >>, 0, { "CPUS must be at least 1" }),
              V(<< "-", "1" >>, -1, { "CPUS must be at least 1" }),
              V(<< "1" >>, 1, {}),
              V(<< " ", "2", " " >>, 2, {}),
              W(<< "x" >>, { "Invalid CPUS value" }) }
        Disks ==
            { NoText,
              V(<< "4" >>, 4, { "DISK_SIZE must be at least 5GB" }),
              V(<< "5" >>, 5, {}),
              V(<< "5", "1", "1", "9", "M" >>, 4, { "DISK_SIZE must be at least 5GB" }),
              V(<< "5", "1", "2", "0", "M" >>, 5, {}),
              V(<< "2", "0", "G" >>, 20, {}),
              W(<< "a", "b", "c" >>, { "Invalid DISK_SIZE format" }),
              W(<< "^2" >>, { "Invalid DISK_SIZE format" }) }
        Few(S) == { c \in S : c.absent \/ c.text \in { << "5", "1", "2" >>, << "1" >>, << "5" >>,
                                                     << "a", "b", "c" >>, << "x" >> } }
        Playbooks ==
            { NoText,
              W(<< "s", ".", "y", "m", "l" >>, {}),
              W(<< "m", ".", "y", "a", "m", "l" >>, { "PROVISIONING_PLAYBOOK not found" }),
              W(<< "s", ".", "t", "x", "t" >>, { "PROVISIONING_PLAYBOOK must be a .yml or .yaml file" }),
              W(<< "m" >>, { "PROVISIONING_PLAYBOOK not found",
                                 "PROVISIONING_PLAYBOOK must be a .yml or .yaml file" }) }
        Resources ==
            [ INFRA_TYPE : Kinds, PROVIDER : { NoWord, W("virtualbox", {}) },
              MEMORY : Memories, CPUS : Cpus, DISK_SIZE : Disks,
              NETWORK_MODE : { NoWord }, IP_ADDRESS : { NoText }, PORTS : { NoText },
              PROVISIONING_PLAYBOOK : { NoText }, PROVISIONING_VARS : { NoText },
              PROVISIONING_AUTO_INSTALL_ANSIBLE : { NoText } ]
        Rules ==
            [ INFRA_TYPE : Kinds \ { W("bogus", {}) }, PROVIDER : { W("virtualbox", {}) },
              MEMORY : Few(Memories), CPUS : Few(Cpus), DISK_SIZE : Few(Disks),
              NETWORK_MODE : { NoWord, W("bridge", {}),
                               W("nat", { "NETWORK_MODE must be 'bridge' or 'default'" }) },
              IP_ADDRESS : { W(<< "1", "0", ".", "0", ".", "0", ".", "5" >>, {}),
                             W(<< "1", "0", ".", "0", ".", "2", "5", "6" >>, { "Invalid IP_ADDRESS format" }) },
              PORTS : { W(<< "8", "0", "8", "0", ":", "8", "0" >>, {}),
                        W(<< "8", "0", "8", "0" >>, { "Invalid port mapping" }) },
              PROVISIONING_PLAYBOOK : Playbooks,
              PROVISIONING_VARS : { W(<< "v", ".", "y", "m", "l" >>, {}),
                                    W(<< "m" >>, { "PROVISIONING_VARS not found" }) },
              PROVISIONING_AUTO_INSTALL_ANSIBLE :
                  { W(<< "Y", "e", "s" >>, {}),
                    W(<< "m", "a", "y", "b", "e" >>, { "PROVISIONING_AUTO_INSTALL_ANSIBLE must be true/false, 1/0, or yes/no" }) } ]
    IN  { [ config |-> [ k \in { k \in DOMAIN c : ~c[k].absent } |-> c[k].text ], written |-> c ] :
            c \in Resources \cup Rules }

\* the memory limit _build_run_command puts after --memory
ContainerManager_build_run_command_memory(memory) == memory \o << "m" >>

\* the number _generate_vagrantfile writes after "vb.memory = "
VMManager_generate_vagrantfile_memory(memory) == memory

\* create(config) for a MEMORY text that validate() accepts, as load()
\* gives it (no blanks around): what the validator computed and what the
\* backend is handed
HandMemory ==
    /\ parsed = NoParse
    /\ \E input \in { t \in SizeTexts : ~t.padded }, kind \in InfraTypes :
          LET memory_mb == ConfigurationParser_parse_memory(input.text)
          IN  /\ memory_mb.raised = "none"
              /\ memory_mb.value >= 512
              /\ parsed' = [ fn |-> "create", input |-> input, kind |-> kind,
                             result |-> memory_mb,
                             handed |-> IF kind = "container"
                                        THEN ContainerManager_build_run_command_memory(input.text)
                                        ELSE VMManager_generate_vagrantfile_memory(input.text) ]
    /\ UNCHANGED << infra_type, backend, vagrantp_provisioned, provisioned, inventory_file,
                    vagrantfile, runs, state_cache, probe, record, last >>

ParseMemory ==
    /\ parsed = NoParse
    /\ \E input \in SizeTexts :
          parsed' = [ fn |-> "_parse_memory", input |-> input,
                      result |-> ConfigurationParser_parse_memory(input.text) ]
    /\ UNCHANGED << infra_type, backend, vagrantp_provisioned, provisioned, inventory_file,
                    vagrantfile, runs, state_cache, probe, record, last >>

ParseDiskSize ==
    /\ parsed = NoParse
    /\ \E input \in SizeTexts :
          parsed' = [ fn |-> "_parse_disk_size", input |-> input,
                      result |-> ConfigurationParser_parse_disk_size(input.text) ]
    /\ UNCHANGED << infra_type, backend, vagrantp_provisioned, provisioned, inventory_file,
                    vagrantfile, runs, state_cache, probe, record, last >>

ParsePorts ==
    /\ parsed = NoParse
    /\ \E input \in PortTexts :
          parsed' = [ fn |-> "_parse_ports", input |-> input,
                      result |-> ConfigurationParser_parse_ports(input.text) ]
    /\ UNCHANGED << infra_type, backend, vagrantp_provisioned, provisioned, inventory_file,
                    vagrantfile, runs, state_cache, probe, record, last >>

Validate ==
    /\ parsed = NoParse
    /\ \E input \in ValidateInputs :
          parsed' = [ fn |-> "validate", input |-> input,
                      result |-> ConfigurationParser_validate(input.config) ]
    /\ UNCHANGED << infra_type, backend, vagrantp_provisioned, provisioned, inventory_file,
                    vagrantfile, runs, state_cache, probe, record, last >>

NextParser ==
    \/ ParseMemory
    \/ ParseDiskSize
    \/ ParsePorts
    \/ Validate
    \/ HandMemory

SpecParser == Init /\ [][NextParser]_vars

-----------------------------------------------------------------------------
(* The state file .vagrantp-state, line by line.  state_cache is here
   [exists, lines]; a line is a text whose state word is one element *)

\* the members of InfrastructureState
InfrastructureStates == {NOT_CREATED, "creating", RUNNING, STOPPED, "removing"}

\* identifiers handed to the state manager: two plain ones, one that holds
\* the separator and one that starts with a blank
Identifiers == { << "w" >>, << "o" >>, << "w", "=", "o" >>, << " ", "w" >> }

\* what the project directory can hold before the first call: no file, a
\* value that names no state, a line without separator
StateFiles ==
    { [ exists |-> FALSE, lines |-> << >> ],
      [ exists |-> TRUE, lines |-> << << "o", "=", "bogus" >> >> ],
      [ exists |-> TRUE, lines |-> << << "#" >>, << "w", "=", RUNNING >> >> ] }

\* StateManager._load_states(): the dictionary as its items in insertion
\* order; a missing file and a line without "=" give nothing
RECURSIVE StateManager_load_states(_)
StateManager_load_states(file) ==
    IF ~file.exists \/ file.lines = << >> THEN << >>
    ELSE LET n == Len(file.lines)
             states == StateManager_load_states([file EXCEPT !.lines = SubSeq(file.lines, 1, n - 1)])
             line == Strip(file.lines[n])
             eq == CHOOSE i \in 1..Len(line) :
                      line[i] = "=" /\ \A j \in 1..(i - 1) : line[j] # "="
             infra == SubSeq(line, 1, eq - 1)
             state == SubSeq(line, eq + 1, Len(line))
         IN  IF ~\E i \in 1..Len(line) : line[i] = "=" THEN states
             ELSE IF \E i \in 1..Len(states) : states[i][1] = infra
             THEN [ i \in 1..Len(states) |->
                      IF states[i][1] = infra THEN << infra, state >> ELSE states[i] ]
             ELSE Append(states, << infra, state >>)

\* StateManager.get_state(infra_id) on the file
StateManager_get_state_in(file, id) ==
    LET states == StateManager_load_states(file)
        state_str == IF \E i \in 1..Len(states) : states[i][1] = id
                     THEN states[CHOOSE i \in 1..Len(states) : states[i][1] = id][2]
                     ELSE << NOT_CREATED >>
    IN  IF ~file.exists THEN NOT_CREATED
        ELSE IF Len(state_str) = 1 /\ state_str[1] \in InfrastructureStates
        THEN state_str[1]
        ELSE NOT_CREATED

\* StateManager.set_state(infra_id, state): load, assign, _save_states()
StateManager_set_state(file, id, s) ==
    LET states == StateManager_load_states(file)
        assigned == IF \E i \in 1..Len(states) : states[i][1] = id
                    THEN [ i \in 1..Len(states) |->
                             IF states[i][1] = id THEN << id, << s >> >> ELSE states[i] ]
                    ELSE Append(states, << id, << s >> >>)
    IN  [ exists |-> TRUE,
          lines |-> [ i \in 1..Len(assigned) |->
                        assigned[i][1] \o << "=" >> \o assigned[i][2] ] ]

InitCache ==
    /\ infra_type \in InfraTypes
    /\ backend = "absent"
    /\ vagrantp_provisioned = FALSE
    /\ provisioned = FALSE
    /\ inventory_file = FALSE
    /\ vagrantfile = FALSE
    /\ runs = 0
    /\ state_cache \in StateFiles
    /\ probe = NoProbe
    /\ record = NoRecord
    /\ parsed = NoParse
    /\ last = NoCall

SetState ==
    \E id \in Identifiers, s \in InfrastructureStates :
        /\ state_cache' = StateManager_set_state(state_cache, id, s)
        /\ parsed' = [ fn |-> "set_state", id |-> id, state |-> s,
                       before |-> [ i \in Identifiers |->
                                      StateManager_get_state_in(state_cache, i) ] ]
        /\ UNCHANGED << infra_type, backend, vagrantp_provisioned, provisioned,
                        inventory_file, vagrantfile, runs, probe, record, last >>

ReadState ==
    \E id \in Identifiers :
        /\ parsed' = [ fn |-> "get_state", id |-> id,
                       result |-> StateManager_get_state_in(state_cache, id) ]
        /\ UNCHANGED << infra_type, backend, vagrantp_provisioned, provisioned,
                        inventory_file, vagrantfile, runs, state_cache, probe,
                        record, last >>

NextCache ==
    \/ SetState
    \/ ReadState

SpecCache == InitCache /\ [][NextCache]_vars

\* the command line alone: up, stop and rm in any order
NextCLI ==
    \/ CmdUp
    \/ CmdStop
    \/ CmdRm

SpecCLI == Init /\ [][NextCLI]_vars

-----------------------------------------------------------------------------
(* What the last call did, read off its record *)

PlaybookCmds == {"ansible-playbook", "ansible-playbook --check"}

\* reachability probes and the bootstrap of Ansible inside a container
ConnectivityCmds ==
    { "vagrant ssh-config", "ansible ping", "podman inspect", "podman exec pacman",
      "detect runtime", "runtime exec which ansible", "runtime exec which python3",
      "runtime exec install python", "runtime exec install ansible",
      "runtime cp playbook" }

ManagerOps == {"create", "start", "stop", "remove", "connect"}

\* the positions of last.calls that hold a command of S
CallsOf(S) == { i \in 1..Len(last.calls) : last.calls[i].cmd \in S }

Invoked(S) == CallsOf(S) # {}

FailedIn(S) == \E i \in CallsOf(S) : last.calls[i].rc # 0

AllExitedZero == \A i \in 1..Len(last.calls) : last.calls[i].rc = 0

\* current_state() of the instance now, when its status query exits 0
ProbedState == GetState(infra_type, backend, TRUE)

\* current_state() before the last call, when its status query exits 0
ProbedStateBefore == GetState(infra_type, last.pre.backend, TRUE)

-----------------------------------------------------------------------------
(* C1 *)

\* the state the last call's own status query gave it: the first command of
\* start, stop, remove, connect and resolve_address is that query
ProbedInCall == GetState(infra_type, last.pre.backend, last.calls[1].rc = 0)

\* C1: over any sequence of up / stop / rm the playbook runs successfully
\* (without --check) at most once against one instance between its creation
\* and its destruction.  As stated; under SpecCLI.
C1_AtMostOncePerInstance == runs <= 1

-----------------------------------------------------------------------------
(* C2 *)

\* C2 as stated: an execute() of the provisioner that finds the record of an
\* earlier successful execute() returns success and runs no command at all.
C2_ExecuteSkipsWhenProvisioned ==
    (last.op = "execute" /\ last.pre.provisioned)
        => (last.outcome = "ok" /\ last.calls = << >>)

\* C2, corrected: the skip is made by the command line's _run_provisioning.
\* With the record present it ends in exactly one way, successfully, with no
\* command run and nothing changed; and an up that starts with the record
\* present runs no playbook and no connectivity or bootstrap command.
C2_RunProvisioningSkips ==
    /\ vagrantp_provisioned =>
         \A config \in Configs :
            config.playbook =>
               run_provisioning(World, infra_type, config)
                  = { ReturnNote(World, << >>, "already provisioned") }
    /\ (last.op = "up" /\ last.pre.vagrantp_provisioned)
          => ~Invoked(PlaybookCmds \cup ConnectivityCmds)

\* an up that brought the instance up and then skipped provisioning because
\* the record was there
C2_Witness ==
    /\ last.op = "up"
    /\ last.pre.vagrantp_provisioned
    /\ last.note = "already provisioned"
    /\ Invoked(CreateCmds \cup StartCmds)
    /\ last.outcome = "ok"

-----------------------------------------------------------------------------
(* C3 *)

-----------------------------------------------------------------------------
(* C4 *)

\* C4: execute() of the provisioner writes the record if and only if the
\* playbook run exited 0 and dry_run is false; in every other case (run
\* failed, pre-flight failed, dry_run) the record is as it was before.
C4_RecordIffRealSuccess ==
    last.op = "execute" =>
        IF ~last.dry_run /\ Invoked(PlaybookCmds) /\ ~FailedIn(PlaybookCmds)
        THEN provisioned
        ELSE provisioned = last.pre.provisioned

\* a real run that exited 0 and wrote a record that was not there
C4_Witness ==
    /\ last.op = "execute"
    /\ ~last.dry_run
    /\ Invoked(PlaybookCmds) /\ ~FailedIn(PlaybookCmds)
    /\ ~last.pre.provisioned
    /\ provisioned

\* a dry run that exited 0 and left the record absent
C4_WitnessDryRun ==
    /\ last.op = "execute"
    /\ last.dry_run
    /\ Invoked(PlaybookCmds) /\ ~FailedIn(PlaybookCmds)
    /\ ~provisioned

-----------------------------------------------------------------------------
(* C5 *)

\* C5: whenever a playbook run ends with a non-zero exit status, the call
\* ends with ProvisioningFailedError, code PROVISIONING_FAILED, carrying that
\* status: execute() of the provisioner for a VM and for a container, and up
\* through the command line's own paths.
C5_FailedRunRaises ==
    \A i \in CallsOf(PlaybookCmds) :
        last.calls[i].rc # 0 =>
            /\ last.outcome = "ProvisioningFailedError"
            /\ last.code = "PROVISIONING_FAILED"
            /\ last.status = last.calls[i].rc

\* an up of a container whose playbook run exited with status MaxExit
C5_Witness ==
    /\ last.op = "up"
    /\ infra_type = "container"
    /\ \E i \in CallsOf(PlaybookCmds) : last.calls[i].rc = MaxExit
    /\ last.status = MaxExit

\* an execute() for a VM whose playbook run exited with status MaxExit
C5_WitnessExecuteVM ==
    /\ last.op = "execute"
    /\ infra_type = "vm"
    /\ \E i \in CallsOf(PlaybookCmds) : last.calls[i].rc = MaxExit
    /\ last.status = MaxExit

-----------------------------------------------------------------------------
(* C6 *)

-----------------------------------------------------------------------------
(* C7 *)

\* C7: whenever the command that create, start, stop, remove or connect runs
\* to do its work exits non-zero, the operation ends with a VagrantpError.
C7_FailedPrimitiveRaises ==
    (last.op \in ManagerOps /\ FailedIn(MutatingCmds \cup SessionCmds))
        => last.outcome \in VagrantpErrors

-----------------------------------------------------------------------------
(* C8 *)

\* C8: a create() called while the instance exists in the backend (running or
\* not) ends with code INFRA_EXISTS and runs no creation command.  Stated for
\* the calls whose "--version" check of the backend tool passed, so that a
\* missing tool is not counted against it.
C8_CreateOfExistingRefused ==
    (last.op = "create" /\ last.pre.backend # "absent"
       /\ ~FailedIn({"vagrant --version", "podman --version"}))
        => (last.code = "INFRA_EXISTS" /\ ~Invoked(CreateCmds))

-----------------------------------------------------------------------------
(* C9 *)

\* C9: when every command of the call exited 0, the probed state moves
\* NotCreated -create-> Running, Running -stop-> Stopped, Stopped -start->
\* Running, any -remove-> NotCreated, and in no other way.
C9_Transitions ==
    (last.op \in ManagerOps /\ AllExitedZero) =>
        CASE last.op = "create" /\ ProbedStateBefore = NOT_CREATED
                -> ProbedState = RUNNING
          [] last.op = "stop" /\ ProbedStateBefore = RUNNING
                -> ProbedState = STOPPED
          [] last.op = "start" /\ ProbedStateBefore = STOPPED
                -> ProbedState = RUNNING
          [] last.op = "remove"
                -> ProbedState = NOT_CREATED
          [] OTHER
                -> ProbedState = ProbedStateBefore

-----------------------------------------------------------------------------
(* C10 *)

\* C10 as stated: start() of an instance that does not exist ends with an
\* error and runs no start command.
C10_StartOfAbsentFails ==
    (last.op = "start" /\ last.pre.backend = "absent")
        => (last.outcome # "ok" /\ ~Invoked(StartCmds))

\* C10, corrected: start() of an instance that does not exist returns
\* normally, having run no start command and created nothing.
C10_StartOfAbsentIsNoOp ==
    (last.op = "start" /\ last.pre.backend = "absent")
        => (last.outcome = "ok" /\ ~Invoked(StartCmds) /\ backend = "absent")

\* a start() of a container that does not exist, whose status query ran
C10_Witness ==
    /\ last.op = "start"
    /\ infra_type = "container"
    /\ last.pre.backend = "absent"
    /\ Invoked({"podman ps"})

-----------------------------------------------------------------------------
(* C15 *)

\* C15: connect() and resolve_address() whose status query does not give
\* Running, or whose instance is not running, raise VagrantpError with
\* GENERAL_ERROR and run neither a session command nor an address command.
C15_NotRunningIsGeneralError ==
    (/\ last.op \in {"connect", "resolve_address"}
     /\ (last.pre.backend # "running" \/ ProbedInCall # RUNNING)) =>
        /\ last.outcome = "VagrantpError"
        /\ last.code = "GENERAL_ERROR"
        /\ ~Invoked(SessionCmds \cup AddressCmds)
        /\ backend = last.pre.backend

\* resolve_address() of a stopped container
C15_Witness ==
    /\ last.op = "resolve_address"
    /\ infra_type = "container"
    /\ last.pre.backend = "halted"
    /\ last.outcome = "VagrantpError"
    /\ last.calls = Ran("podman ps", TRUE)

\* connect() of a container that does not exist
C15_WitnessConnect ==
    /\ last.op = "connect"
    /\ infra_type = "container"
    /\ last.pre.backend = "absent"
    /\ last.outcome = "VagrantpError"

-----------------------------------------------------------------------------
(* C19 *)

\* what a call lets one observe: the commands it ran with their exits, the
\* error it raised and the backend it left
Observable(r) ==
    [ calls |-> r.calls, outcome |-> r.outcome, code |-> r.code,
      backend |-> r.w.backend ]

\* the observable outcomes of op from the world w
OutcomesOf(op, force, w) ==
    { Observable(r) : r \in
        CASE op = "start" -> Manager_start(w, infra_type)
          [] op = "stop" -> Manager_stop(w, infra_type, force)
          [] op = "remove" -> Manager_remove(w, infra_type, force)
          [] op = "connect" -> Manager_connect(w, infra_type)
          [] op = "resolve_address" -> Manager_resolve_address(w, infra_type) }

-----------------------------------------------------------------------------
(* C16 *)

\* the lines of the probed output that are entries of a listing (name TAB
\* status), and those that are records timestamp,target,type,data
ListingEntries == { i \in 1..Len(probe.lines) : Len(probe.lines[i]) = 2 }

StatusRecords ==
    { i \in 1..Len(probe.lines) :
        Len(probe.lines[i]) >= 4 /\ probe.lines[i][1] # "" }

\* C16: current_state() always returns a state; a status query that exits
\* non-zero or raises gives NotCreated whatever it printed, and so does an
\* output in which nothing can be parsed.  Under SpecProbe.
C16_FailedQueryIsNotCreated ==
    /\ probe.state \in {NOT_CREATED, RUNNING, STOPPED}
    /\ probe.how \in {"nonzero", "exception"} => probe.state = NOT_CREATED
    /\ (probe.kind = "container" /\ ListingEntries = {}) => probe.state = NOT_CREATED
    /\ (probe.kind = "vm" /\ StatusRecords = {}) => probe.state = NOT_CREATED

\* a listing that shows the container running, from a query that exited
\* non-zero
C16_Witness ==
    /\ probe.kind = "container"
    /\ probe.how = "nonzero"
    /\ \E i \in ListingEntries :
          probe.lines[i] = << infra_id, PodmanStatusText("running") >>
    /\ probe.state = NOT_CREATED

-----------------------------------------------------------------------------
(* C17 *)

\* the records that report the state of the machine
StateRecords == { i \in StatusRecords : probe.lines[i][3] = "state" }

\* C17: for a vagrant status output with one state record, current_state()
\* is Running for "running", Stopped for "poweroff", "stopped" and "aborted",
\* NotCreated for "not_created".  Under SpecProbe.
C17_VagrantStateMapped ==
    (probe.kind = "vm" /\ probe.how = "ok" /\ Cardinality(StateRecords) = 1) =>
        \A i \in StateRecords :
            LET word == probe.lines[i][4] IN
            /\ word = "running" => probe.state = RUNNING
            /\ word \in {"poweroff", "stopped", "aborted"} => probe.state = STOPPED
            /\ word = "not_created" => probe.state = NOT_CREATED

-----------------------------------------------------------------------------
(* C18 *)

\* the entries of the probed listing that carry the instance's name
OwnEntries == { i \in ListingEntries : probe.lines[i][1] = infra_id }

IsOwnLine(line) == Len(line) = 2 /\ line[1] = infra_id

\* C18: for a podman listing, current_state() is Running when the one entry
\* with the instance's name has a status that begins with "Up", Stopped when
\* that status is an "Exited", "Created" or "Stopped" one, NotCreated when no
\* entry has the name; and it is what it would be with every other entry
\* taken out of the listing.  Under SpecProbe.
C18_PodmanListingMapped ==
    (probe.kind = "container" /\ probe.how = "ok") =>
        /\ OwnEntries = {} => probe.state = NOT_CREATED
        /\ Cardinality(OwnEntries) = 1 =>
              \A i \in OwnEntries :
                 LET status == probe.lines[i][2] IN
                 /\ status = PodmanStatusText("running") => probe.state = RUNNING
                 /\ status \in { PodmanStatusText("halted"), PodmanStatusText("created"),
                                 << "S", "t", "o", "p", "p", "e", "d" >> }
                       => probe.state = STOPPED
        /\ probe.state = ContainerManager_get_state_of("ok", SelectSeq(probe.lines, IsOwnLine))

\* a listing with a running container of another name before the
\* instance's own, which has exited
C18_Witness ==
    /\ probe.kind = "container"
    /\ probe.how = "ok"
    /\ probe.lines = << << "web2", PodmanStatusText("running") >>,
                        << infra_id, PodmanStatusText("halted") >> >>
    /\ probe.state = STOPPED

-----------------------------------------------------------------------------
(* C11 *)

\* C11: start() runs the start primitive only if its status query gave
\* Stopped; if the query gave Running it runs no mutating command, raises
\* nothing and leaves the backend as it was.
C11_StartOnlyWhenStopped ==
    last.op = "start" =>
        /\ Invoked(StartCmds) => ProbedInCall = STOPPED
        /\ ProbedInCall = RUNNING =>
              /\ ~Invoked(MutatingCmds)
              /\ last.outcome = "ok"
              /\ backend = last.pre.backend

\* start() of a running container
C11_Witness ==
    /\ last.op = "start"
    /\ ProbedInCall = RUNNING
    /\ last.pre.backend = "running"
    /\ Len(last.calls) = 1

\* start() of a stopped container that ran podman start
C11_WitnessStarted ==
    /\ last.op = "start"
    /\ ProbedInCall = STOPPED
    /\ Invoked({"podman start"})
    /\ backend = "running"

-----------------------------------------------------------------------------
(* C12 *)

\* stop() of an instance that is not running, or that its status query did
\* not find running, runs no mutating command and raises nothing
StopOfStoppedIsNoOp ==
    (last.op = "stop" /\ (last.pre.backend # "running" \/ ProbedInCall # RUNNING)) =>
        /\ ~Invoked(MutatingCmds)
        /\ last.outcome = "ok"
        /\ backend = last.pre.backend

\* a stop() that follows a stop() which left the instance stopped
SecondStopAddsNothing ==
    (last.op = "stop" /\ backend # "running" /\ last'.op = "stop") =>
        /\ \A i \in 1..Len(last'.calls) : last'.calls[i].cmd \notin MutatingCmds
        /\ last'.outcome = "ok"
        /\ backend' = backend

\* C12: stop(force) of an instance that is Stopped or NotCreated runs no
\* mutating command and raises nothing, with or without force; a stop()
\* directly after a stop() that left the instance stopped runs none either.
C12_StopIdempotent == [] StopOfStoppedIsNoOp /\ [][SecondStopAddsNothing]_vars

\* a forced stop() of a stopped container
C12_Witness ==
    /\ last.op = "stop"
    /\ last.force
    /\ infra_type = "container"
    /\ last.pre.backend = "halted"
    /\ last.calls = Ran("podman ps", TRUE)
    /\ backend = "halted"

-----------------------------------------------------------------------------
(* C13 *)

\* C13: stop(force) of a running instance whose status query exits 0 runs
\* exactly one halting command: the forced one with force, the graceful one
\* without.  As stated.
C13_StopRunsOneHalt ==
    (last.op = "stop" /\ last.pre.backend = "running" /\ last.calls[1].rc = 0) =>
        /\ Cardinality(CallsOf(HaltCmds)) = 1
        /\ last.force => Invoked(ForcedHaltCmds)
        /\ ~last.force => Invoked(GracefulHaltCmds)

-----------------------------------------------------------------------------
(* C14 *)

\* C14: remove(force) runs the destroy primitive only if its status query
\* did not give NotCreated, and runs no mutating command if it did; if the
\* query gave Running, a halt comes before the destroy, graceful without
\* force and forced with it.  As stated.
C14_HaltBeforeDestroy ==
    last.op = "remove" =>
        /\ Invoked(DestroyCmds) => ProbedInCall # NOT_CREATED
        /\ ProbedInCall = NOT_CREATED => ~Invoked(MutatingCmds)
        /\ (ProbedInCall = RUNNING /\ Invoked(DestroyCmds)) =>
              \A d \in CallsOf(DestroyCmds) :
                 \E h \in CallsOf(IF last.force THEN ForcedHaltCmds ELSE GracefulHaltCmds) :
                    h < d

-----------------------------------------------------------------------------
(* C20 *)

\* the lifecycle state of the instance the backend holds
LifecycleState(b) ==
    CASE b = "absent" -> NOT_CREATED
      [] b = "running" -> RUNNING
      [] OTHER -> STOPPED

\* how a call ended: with an error, having run its primitive, or as a no-op
OutcomeClass(r) ==
    IF r.outcome # "ok" THEN "error"
    ELSE IF \E i \in 1..Len(r.calls) : r.calls[i].cmd \in MutatingCmds \cup SessionCmds
    THEN "primitive"
    ELSE "no-op"

\* the two managers' calls ended alike
SameOutcome(vm, container) ==
    /\ OutcomeClass(vm) = OutcomeClass(container)
    /\ LifecycleState(vm.w.backend) = LifecycleState(container.w.backend)

SameCreate ==
    SameOutcome(VMManager_create(World, "ok", TRUE, FALSE),
                ContainerManager_create(World, "ok", TRUE, TRUE, FALSE))

SameStart ==
    SameOutcome(VMManager_start(World, TRUE, TRUE),
                ContainerManager_start(World, TRUE, TRUE))

SameStop ==
    \A force \in BOOLEAN :
        SameOutcome(VMManager_stop(World, force, TRUE, TRUE),
                    ContainerManager_stop(World, force, TRUE, TRUE))

SameRemove ==
    \A force \in BOOLEAN :
        SameOutcome(VMManager_remove(World, force, TRUE, TRUE, TRUE, TRUE),
                    ContainerManager_remove(World, force, TRUE, TRUE, TRUE, TRUE))

SameConnect ==
    SameOutcome(VMManager_connect(World, TRUE, TRUE),
                ContainerManager_connect(World, TRUE, TRUE))

\* C20: from the lifecycle state the instance is in, with the tools
\* installed and every command allowed to succeed, create, start,
\* stop(force), remove(force) and connect of VMManager end in the same class
\* (no-op, error, primitive run) and leave the same lifecycle state as those
\* of ContainerManager.  As stated.
C20_SameContract ==
    /\ SameCreate
    /\ SameStart
    /\ SameStop
    /\ SameRemove
    /\ SameConnect

-----------------------------------------------------------------------------
(* C21 *)

\* the last call was a provisioning that did not end at its first checks
\* (no playbook configured, record present)
ProvisioningAttempted ==
    \/ last.op = "execute"
    \/ /\ last.op = "provision"
       /\ last.note \notin {"No playbook specified", "already provisioned"}

\* C21: a provisioning attempted while the instance is not running ends
\* with PROVISIONING_FAILED and runs no playbook, for a VM and for a
\* container.  As stated; under SpecProvision.
C21_NotRunningIsProvisioningFailed ==
    (ProvisioningAttempted /\ last.pre.backend # "running") =>
        /\ last.outcome # "ok"
        /\ last.code = "PROVISIONING_FAILED"
        /\ ~Invoked(PlaybookCmds)

-----------------------------------------------------------------------------
(* C22 *)

InstallCmds == {"runtime exec install python", "runtime exec install ansible"}

\* _check_ansible_in_container found no Ansible and auto-install is off
AgentAbsentNoBootstrap ==
    /\ last.op = "provision"
    /\ infra_type = "container"
    /\ ~last.auto_install
    /\ FailedIn({"runtime exec which ansible"})

\* C22: _run_provisioning for a container without Ansible, with
\* PROVISIONING_AUTO_INSTALL_ANSIBLE false, returns without error, installs
\* nothing, runs no playbook and writes no record.  Under SpecProvision.
C22_AbsentAgentSkips ==
    AgentAbsentNoBootstrap =>
        /\ last.outcome = "ok"
        /\ ~Invoked(InstallCmds)
        /\ ~Invoked(PlaybookCmds)
        /\ ~vagrantp_provisioned
        /\ provisioned = last.pre.provisioned
        /\ runs = last.pre.runs

\* a running container without Ansible whose provisioning was skipped
C22_Witness ==
    /\ AgentAbsentNoBootstrap
    /\ last.pre.backend = "running"
    /\ last.note = "Skipping provisioning"
    /\ last.outcome = "ok"

-----------------------------------------------------------------------------
(* C23 *)

\* the reachability probes: ansible ping of a VM, podman inspect of a
\* container
ProbeCmds == {"ansible ping", "podman inspect"}

-----------------------------------------------------------------------------
(* C24 *)

\* C24: marking one handle as provisioned makes is_provisioned true for no
\* other handle (another infrastructure identifier, in the same project
\* directory or in another) for which it was false before.  As stated; under
\* SpecRecord.
C24_RecordScopedToHandle ==
    record.op = "mark" =>
        \A h \in Handles :
            (h.infra_id # record.handle.infra_id /\ ~is_provisioned(h, record.before))
                => ~is_provisioned(h, record.files)

-----------------------------------------------------------------------------
(* C26 *)

MegaUnits == { << >>, << "M" >>, << "M", "B" >> }
GigaUnits == { << "G" >>, << "G", "B" >> }

\* the parsed text is digits and one of the units M, MB, G, GB or none,
\* exactly as the claim spells them
WrittenExactly ==
    parsed.input.written /\ ~parsed.input.padded
    /\ parsed.input.unit \in MegaUnits \cup GigaUnits

\* C26: memory parsing returns N for N, NM, NMB and N*1024 for
\* NG, NGB, and every other text raises ValidationError with field MEMORY.
C26_MemoryExactForms ==
    parsed.fn = "_parse_memory" =>
        IF WrittenExactly
        THEN /\ parsed.result.raised = "none"
             /\ parsed.result.value = IF parsed.input.unit \in MegaUnits
                                      THEN parsed.input.n ELSE parsed.input.n * 1024
        ELSE parsed.result.raised = "ValidationError" /\ parsed.result.field = "MEMORY"

-----------------------------------------------------------------------------
(* C27 *)

\* C27: disk-size parsing returns N gigabytes for N, NG, NGB and N div 1024
\* for NM, NMB (10240M gives 10, 5119M gives 4); a malformed text raises
\* ValidationError with field DISK_SIZE.
C27_DiskSizeForms ==
    parsed.fn = "_parse_disk_size" =>
        /\ WrittenExactly =>
              /\ parsed.result.raised = "none"
              /\ parsed.result.value =
                    IF parsed.input.unit \in { << "M" >>, << "M", "B" >> }
                    THEN parsed.input.n \div 1024 ELSE parsed.input.n
        /\ ~parsed.input.written =>
              parsed.result.raised = "ValidationError" /\ parsed.result.field = "DISK_SIZE"
        /\ (parsed.input.text = Digits(10240) \o << "M" >>) => parsed.result.value = 10
        /\ (parsed.input.text = Digits(5119) \o << "M" >>) => parsed.result.value = 4

-----------------------------------------------------------------------------
(* C30 *)

\* C30: parsing a comma-separated list of well-formed HOST:GUEST mappings
\* returns one entry per mapping in the order of the list, with auto true and
\* host 0 when HOST is the token auto in any letter case, and auto false with
\* the integer host otherwise; a list with a mapping that lacks ':' or has a
\* side that is not a number raises ValidationError with field PORTS, and no
\* mapping is passed over.  Under SpecParser.
C30_PortsParsedInOrder ==
    parsed.fn = "_parse_ports" =>
        LET es == parsed.input.entries
            r == parsed.result
        IN  /\ (\A i \in 1..Len(es) : es[i].wf = "yes") =>
                  /\ r.raised = "none"
                  /\ Len(r.value) = Len(es)
                  /\ \A i \in 1..Len(es) :
                        r.value[i] = [ host |-> es[i].host, container |-> es[i].guest,
                                       auto |-> es[i].auto ]
            /\ (\E i \in 1..Len(es) : es[i].wf = "no") =>
                  r.raised = "ValidationError" /\ r.field = "PORTS"
            /\ r.raised = "none" => Len(r.value) = Len(es)

\* " 8080 : 80 ,AUTO:443" gives the two entries in that order
C30_Witness ==
    /\ parsed.fn = "_parse_ports"
    /\ Len(parsed.input.entries) = 2
    /\ parsed.input.entries[1].text = << " ", "8", "0", "8", "0", " ", ":", " ", "8", "0", " " >>
    /\ parsed.input.entries[2].text = << "A", "U", "T", "O", ":", "4", "4", "3" >>
    /\ parsed.result.value = << [ host |-> 8080, container |-> 80, auto |-> FALSE ],
                                [ host |-> 0, container |-> 443, auto |-> TRUE ] >>

\* a list whose second mapping has no ':' raises
C30_WitnessMalformed ==
    /\ parsed.fn = "_parse_ports"
    /\ Len(parsed.input.entries) = 2
    /\ parsed.input.entries[1].wf = "yes"
    /\ parsed.input.entries[2].text = << "8", "0", "8", "0" >>
    /\ parsed.result.raised = "ValidationError"

-----------------------------------------------------------------------------
(* C25 *)

\* the errors of the rules the written mapping breaks
BrokenRules ==
    LET c == parsed.input.written
    IN  UNION { c[k].breaks : k \in DOMAIN c }
        \cup (IF c.INFRA_TYPE.absent THEN { "INFRA_TYPE is required" } ELSE {})
        \cup (IF c.INFRA_TYPE.text = "bogus"
              THEN { "INFRA_TYPE must be 'vm' or 'container'" } ELSE {})
        \cup (IF c.INFRA_TYPE.text = "vm" /\ c.PROVIDER.absent
              THEN { "PROVIDER is required for VM infrastructure" } ELSE {})

\* C25: for every mapping validate() returns a result and does not raise;
\* the result holds one error for every rule the mapping breaks, all rules
\* being evaluated; and valid is true exactly when there is no error,
\* whatever the warnings.
C25_ValidateAccumulates ==
    parsed.fn = "validate" =>
        /\ parsed.result.raised = "none"
        /\ LET r == parsed.result.value
           IN  /\ { r.errors[i] : i \in 1..Len(r.errors) } = BrokenRules
               /\ Len(r.errors) = Cardinality(BrokenRules)
               /\ r.valid <=> r.errors = << >>

-----------------------------------------------------------------------------
(* C28 *)

\* validate() returned a result that holds the error
Reported(error) ==
    /\ parsed.result.raised = "none"
    /\ \E i \in 1..Len(parsed.result.value.errors) : parsed.result.value.errors[i] = error

\* C28: validate() reports a resource-minimum error exactly when the
\* normalized value is below its bound: memory below 512 MB, cpu count
\* below 1, disk size below 5 GB; a value at or above the bound never
\* produces that error.
C28_MinimumErrorIffBelowBound ==
    parsed.fn = "validate" =>
        LET c == parsed.input.written
        IN  /\ c.MEMORY.numeric =>
                  (Reported("MEMORY must be at least 512MB") <=> c.MEMORY.amount < 512)
            /\ c.CPUS.numeric =>
                  (Reported("CPUS must be at least 1") <=> c.CPUS.amount < 1)
            /\ c.DISK_SIZE.numeric =>
                  (Reported("DISK_SIZE must be at least 5GB") <=> c.DISK_SIZE.amount < 5)

-----------------------------------------------------------------------------
(* C29 *)

\* C29: for a mapping whose INFRA_TYPE is container, the presence of
\* DISK_SIZE only adds a warning: whatever its value, validate() gives the
\* validity and the errors it gives for the mapping without DISK_SIZE.
C29_ContainerDiskSizeOnlyWarns ==
    (parsed.fn = "validate" /\ "DISK_SIZE" \in DOMAIN parsed.input.config
        /\ parsed.input.written.INFRA_TYPE.text = "container") =>
        LET config == parsed.input.config
            without == ConfigurationParser_validate(
                            [ k \in DOMAIN config \ { "DISK_SIZE" } |-> config[k] ])
        IN  without.raised = "none" =>
                /\ parsed.result.raised = "none"
                /\ parsed.result.value.valid = without.value.valid
                /\ parsed.result.value.errors = without.value.errors
                /\ parsed.result.value.warnings =
                      << "DISK_SIZE is not applicable for container infrastructure" >>

-----------------------------------------------------------------------------
(* C31 *)

\* C31: a list with a mapping whose host or guest side is a negative
\* integer, or lies outside 0..65535, is rejected with a ValidationError
\* of field PORTS.
C31_PortRangeRejected ==
    (parsed.fn = "_parse_ports"
        /\ \E i \in 1..Len(parsed.input.entries) :
              parsed.input.entries[i].wf \in { "signed", "range" }) =>
        parsed.result.raised = "ValidationError" /\ parsed.result.field = "PORTS"

-----------------------------------------------------------------------------
(* C32 *)

\* C32: a command (up, ssh, stop, rm) run without a configuration source
\* ends with ConfigNotFoundError and the CONFIG_ERROR exit code, and runs
\* no backend command.
C32_AbsentSourceIsConfigError ==
    last.source = "absent" =>
        /\ last.outcome = "ConfigNotFoundError"
        /\ ExitCode(last) = 2
        /\ last.calls = << >>

-----------------------------------------------------------------------------
(* C33 *)

\* the version check of create() found no executable
ToolMissing ==
    /\ last.op = "create"
    /\ \E i \in 1..Len(last.calls) :
          last.calls[i].cmd \in { "vagrant --version", "podman --version" }
          /\ last.calls[i].rc = 127

\* C33: create() invoked when the backend tool is missing from the host
\* fails with ProviderNotAvailableError (code PROVIDER_NOT_AVAILABLE) and
\* invokes no creation primitive, for both backends.
C33_MissingToolIsProviderNotAvailable ==
    ToolMissing =>
        /\ last.outcome = "ProviderNotAvailableError"
        /\ last.code = "PROVIDER_NOT_AVAILABLE"
        /\ ~\E i \in 1..Len(last.calls) : last.calls[i].cmd \in CreateCmds

-----------------------------------------------------------------------------
(* C34 *)

\* C34: for every MEMORY text that passes validation, in each spelling N,
\* NM, NMB, NG, NGB, the memory create() hands to the backend is the
\* megabyte value the validator computed: the container limit is that
\* number with the unit m, the VM manifest setting is that number.
C34_HandedMemoryIsValidated ==
    (parsed.fn = "create" /\ WrittenExactly) =>
        parsed.handed = Digits(parsed.result.value)
                            \o (IF parsed.kind = "container" THEN << "m" >> ELSE << >>)

-----------------------------------------------------------------------------
(* C35 *)

\* the last call was an up that got past validation and --dry-run; its
\* first command is then its status query
UpActed == last.op = "up" /\ last.source = "present" /\ last.valid /\ ~last.dry_run

\* the first commands of create() and, after up's own query, of start()
VersionChecks == { "vagrant --version", "podman --version" }
StatusQueries == { "vagrant status", "podman ps" }

\* the commands whose failure makes create() or start() raise
RaisingPrimitives == VersionChecks \cup { "podman run", "podman start" }

\* C35: up decides on one probe taken before acting.  Probe Running: it
\* fails with InfrastructureExistsError (exit code INFRA_EXISTS) and runs
\* nothing more.  Probe Stopped: it calls start() and never create().
\* Probe NotCreated: it calls create().  A provisioning step is reached only
\* after that create() or start() returned without error.  Under Spec.
C35_UpDecidesOnOneProbe ==
    UpActed =>
        /\ last.calls[1].cmd \in StatusQueries
        /\ ProbedInCall = RUNNING =>
              /\ last.outcome = "InfrastructureExistsError"
              /\ ExitCode(last) = 3
              /\ Len(last.calls) = 1
        /\ ProbedInCall = STOPPED =>
              /\ Len(last.calls) >= 2 /\ last.calls[2].cmd \in StatusQueries
              /\ ~Invoked(VersionChecks \cup { "podman run" })
        /\ ProbedInCall = NOT_CREATED =>
              /\ Len(last.calls) >= 2 /\ last.calls[2].cmd \in VersionChecks
              /\ ~Invoked({ "podman start" })
        /\ \A p \in CallsOf(PlaybookCmds \cup ConnectivityCmds) :
              \A i \in 1..(p - 1) :
                 last.calls[i].cmd \in RaisingPrimitives => last.calls[i].rc = 0

\* up of a stopped container that started it and then ran the playbook
C35_Witness ==
    /\ UpActed
    /\ ProbedInCall = STOPPED
    /\ Invoked({ "podman start" })
    /\ Invoked(PlaybookCmds)

\* up of a running container
C35_WitnessRunning ==
    /\ UpActed
    /\ ProbedInCall = RUNNING
    /\ last.outcome = "InfrastructureExistsError"

-----------------------------------------------------------------------------
(* C36 *)

\* C36: up runs no status query, no mutating command and no provisioning
\* step, and changes nothing, unless the configuration was loaded,
\* validation found no error and --dry-run is off; with --no-provision it
\* runs no provisioning command and leaves both provisioning records as
\* they were.  Under Spec.
C36_UpFrame ==
    last.op = "up" =>
        /\ ~UpActed => last.calls = << >> /\ World = last.pre
        /\ last.no_provision =>
              /\ ~Invoked(PlaybookCmds \cup ConnectivityCmds)
              /\ \A i \in 1..Len(last.calls) :
                    last.calls[i].cmd \in StatusQueries => i <= 2
              /\ vagrantp_provisioned = last.pre.vagrantp_provisioned
              /\ provisioned = last.pre.provisioned

\* up --no-provision that created the instance
C36_Witness ==
    /\ UpActed
    /\ last.no_provision
    /\ last.pre.backend = "absent"
    /\ backend = "running"

\* up --dry-run of a valid configuration
C36_WitnessDryRun ==
    /\ last.op = "up"
    /\ last.dry_run /\ last.valid /\ last.source = "present"
    /\ last.outcome = "ok"
    /\ last.pre.backend = "halted"

-----------------------------------------------------------------------------
(* C37 *)

\* C37: when the halting command of a remove(force) fails, remove() ends
\* with that error, runs no destroy command and leaves the instance in
\* place, for both backends.  Under Spec.
C37_FailedHaltStopsRemove ==
    (last.op \in { "remove", "rm" } /\ FailedIn(HaltCmds)) =>
        /\ last.outcome = "VagrantpError"
        /\ ~Invoked(DestroyCmds)
        /\ backend = last.pre.backend

\* remove() of a running container whose podman stop failed
C37_Witness ==
    /\ last.op = "remove"
    /\ last.pre.backend = "running"
    /\ FailedIn({ "podman stop" })
    /\ backend = "running"

-----------------------------------------------------------------------------
(* C38 *)

\* the last call was an execute() that got past its two path checks and
\* wrote the inventory file: every such call goes on to run a command
InventoryCreated == last.op = "execute" /\ last.calls # << >>

\* C38: after execute() returns or raises, in any outcome (success, dry
\* run, non-zero exit of the run, failed reachability check), the
\* inventory file it created no longer exists.
C38_InventoryFileRemoved ==
    InventoryCreated => ~inventory_file

-----------------------------------------------------------------------------
(* C39 *)

\* C39: for the container backend the state probe and the existence check
\* agree on every listing: the probe gives NotCreated if and only if no
\* container with the instance's name is listed.
C39_ProbeAgreesWithExistence ==
    probe.kind = "container" =>
        (probe.state = NOT_CREATED <=> ~probe.exists)

-----------------------------------------------------------------------------
(* C40 *)

\* the identifier has a line in the file, and the value on it names a state
StoredRecognised(file, id) ==
    LET states == StateManager_load_states(file)
    IN  \E i \in 1..Len(states) :
            /\ states[i][1] = id
            /\ Len(states[i][2]) = 1
            /\ states[i][2][1] \in InfrastructureStates

\* C40: get_state(id) after set_state(id, s) returns s, set_state(id, s)
\* leaves the stored state of every other identifier unchanged, and
\* get_state returns NotCreated for a missing file, an unknown identifier
\* or an unrecognized stored value.  Under SpecCache.
C40_StateCacheRoundTrip ==
    /\ parsed.fn = "set_state" =>
           /\ StateManager_get_state_in(state_cache, parsed.id) = parsed.state
           /\ \A other \in Identifiers \ { parsed.id } :
                  StateManager_get_state_in(state_cache, other) = parsed.before[other]
    /\ (parsed.fn = "get_state" /\ ~StoredRecognised(state_cache, parsed.id)) =>
           parsed.result = NOT_CREATED

=============================================================================
